---- MODULE Spec2Model ----
(***************************************************************************)
(* The ingestion / analysis / persistence pipeline of startup-radar:       *)
(* scripts/reddit-scraper.js (orchestrator), lib/ai-analyzer.js            *)
(* (analyzePost), lib/langsmith-admin.js (getPrompts), lib/database.js     *)
(* (savePostToDatabase) and sql/setup-database.sql (the two tables).       *)
(*                                                                         *)
(* JavaScript values are records tagged with their typeof/shape in field   *)
(* t.  Scores are fixed-point numbers in thousandths (0.5 is 500), counts  *)
(* (upvotes, comments, trending score) are plain integers.                 *)
(***************************************************************************)
EXTENDS Integers, Sequences, FiniteSets, TLC

(* ------------------------------------------------------------------ *)
(* JavaScript values                                                    *)
(* ------------------------------------------------------------------ *)
Undefined == [t |-> "undefined"]
JNull == [t |-> "null"]
JNum(n) == [t |-> "number", v |-> n]
JStr(s) == [t |-> "string", v |-> s]
JArr(a) == [t |-> "array", v |-> a]

\* JavaScript truthiness, as used by `||`, `!x` and `if (x)`.
Truthy(v) ==
  CASE v.t = "undefined" -> FALSE
    [] v.t = "null" -> FALSE
    [] v.t = "number" -> v.v # 0
    [] v.t = "string" -> v.v # ""
    [] OTHER -> TRUE

\* a || b
OrElse(a, b) == IF Truthy(a) THEN a ELSE b

\* analysis.<f>: a property read; only plain objects of the model output
\* carry the fields, an array carries none of them.
Get(o, f) == IF o.t = "object" THEN o[f] ELSE Undefined

Min(a, b) == IF a <= b THEN a ELSE b

\* String.prototype.substring(0, n)
Substring(s, n) == SubSeq(s, 1, Min(n, Len(s)))

\* 0.5 in thousandths: the default of every score.
ScoreDefault == 500
\* 1.0 in thousandths: the upper end of the schema's CHECK on a score.
ScoreMax == 1000
\* title.substring(0, 200)
SummaryMax == 200
\* listPrompts is read up to 10 prompts.
ListLimit == 10
\* inputVars[0].length < 50
ShortNameLen == 50
\* setTimeout(resolve, 1000): the pause at the end of a turn of the fetch loop
\* and of the analysis loop, in milliseconds
RequestDelay == 1000

ScoreFields ==
  {"sentiment_score", "relevance_score", "innovation_score", "market_viability"}

(* ------------------------------------------------------------------ *)
(* Prompt resolution: LangSmithAdmin.getPrompts and mapPrompt           *)
(* ------------------------------------------------------------------ *)
RECURSIVE Take(_, _)
Take(s, n) == IF n = 0 \/ s = <<>> THEN <<>> ELSE <<Head(s)>> \o Take(Tail(s), n - 1)

\* new Date(p.updated_at || p.created_at).getTime()
UpdateTime(p) == OrElse(p.updated_at, p.created_at).v

\* Insert p into a list sorted by update time, latest first, after every
\* element that is not older (Array.prototype.sort is stable).
RECURSIVE InsertByTime(_, _)
InsertByTime(p, s) ==
  IF s = <<>> THEN <<p>>
  ELSE IF UpdateTime(Head(s)) >= UpdateTime(p)
       THEN <<Head(s)>> \o InsertByTime(p, Tail(s))
       ELSE <<p>> \o s

RECURSIVE SortByTimeFrom(_, _)
SortByTimeFrom(s, acc) ==
  IF s = <<>> THEN acc ELSE SortByTimeFrom(Tail(s), InsertByTime(Head(s), acc))

\* promptsList.sort((a, b) => time(b) - time(a))
sortedPrompts_unsorted(s) == s

sortedPrompts(s) == SortByTimeFrom(s, <<>>)

\* LangSmithAdmin.mapPrompt
mapPrompt(p) ==
  [t |-> "prompt",
   id |-> p.id,
   prompt |-> p.prompt,
   langchain_prompt |-> Undefined,
   metadata |-> [version |-> p.version,
                 is_active |-> Truthy(p.is_active),
                 is_langchain_prompt |-> FALSE]]

\* The prompt getPrompts builds from a successful hub.pull.
convertedPrompt(hubPrompt) ==
  [t |-> "prompt",
   id |-> JStr("startup-analysis-2"),
   prompt |-> hubPrompt,
   langchain_prompt |-> hubPrompt,
   metadata |-> [version |-> JStr("latest"),
                 is_active |-> TRUE,
                 is_langchain_prompt |-> TRUE]]

MapPrompts(s) == [i \in 1..Len(s) |-> mapPrompt(s[i])]

\* getPrompts: hub pull, else the registry listing, else the listing read a
\* second time, else [].  hub, list1, list2 are the outcomes of the three
\* remote calls.
getPrompts(hub, list1, list2) ==
  IF hub.ok THEN <<convertedPrompt(hub.prompt)>>
  ELSE IF list1.ok THEN MapPrompts(sortedPrompts(Take(list1.items, ListLimit)))
  ELSE IF list2.ok THEN MapPrompts(sortedPrompts(Take(list2.items, ListLimit)))
  ELSE <<>>

\* The remote calls getPrompts makes, in order: the hub pull, and the
\* registry listing only in the catch of a failed pull, read a second time
\* when the first reading failed.
getPromptsCalls(hub, list1, list2) ==
  IF hub.ok THEN <<"hub">>
  ELSE IF list1.ok THEN <<"hub", "list">>
  ELSE <<"hub", "list", "list">>

\* prompts.find((p) => p.metadata.is_active); null stands for "not found".
RECURSIVE FindActive(_)
FindActive(s) ==
  IF s = <<>> THEN JNull
  ELSE IF Head(s).metadata.is_active THEN Head(s) ELSE FindActive(Tail(s))

RecognizedVars == {"content", "post", "text"}

\* hasValidInputVars of analyzePost
hasValidInputVars_atMostOne(inputVars) ==
  \/ \E i \in 1..Len(inputVars) : inputVars[i] \in RecognizedVars
  \/ Len(inputVars) <= 1

hasValidInputVars_anyShort(inputVars) ==
  \/ \E i \in 1..Len(inputVars) : inputVars[i] \in RecognizedVars
  \/ Len(inputVars) >= 1 /\ Len(inputVars[1]) < ShortNameLen

hasValidInputVars(inputVars) ==
  \/ \E i \in 1..Len(inputVars) : inputVars[i] \in RecognizedVars
  \/ Len(inputVars) = 1 /\ Len(inputVars[1]) < ShortNameLen

\* The part of analyzePost that chooses the template: the prompt that stays
\* active, which template is rendered, and whether building it threw.
ResolveTemplate(env) ==
  LET found == FindActive(getPrompts(env.hub, env.list1, env.list2))
      fallback == [activePrompt |-> JNull, template |-> "fallback",
                   threw |-> ~env.fromTemplateOk]
  IN IF found = JNull THEN fallback
     ELSE IF found.metadata.is_langchain_prompt /\ Truthy(found.langchain_prompt)
     THEN LET iv == found.langchain_prompt.inputVariables
              inputVars == IF Truthy(iv) THEN iv.v ELSE <<>>
          IN IF hasValidInputVars(inputVars)
             THEN [activePrompt |-> found, template |-> "hub", threw |-> FALSE]
             ELSE fallback
     ELSE \* activePrompt.prompt.substring(...) and PromptTemplate.fromTemplate
          [activePrompt |-> found, template |-> "registry",
           threw |-> found.prompt.t # "string" \/ ~env.fromTemplateOk]

(* ------------------------------------------------------------------ *)
(* Model invocation and output parsing                                  *)
(* ------------------------------------------------------------------ *)
\* The raw response is a sequence of tokens: plain text, a stray "{" or "}",
\* or the text of one JSON object (which begins with "{" and ends with "}").
HasOpen(tok) == tok.t \in {"lbrace", "object"}
HasClose(tok) == tok.t \in {"rbrace", "object"}

\* content.match(/\{[\s\S]*\}/): from the first "{" to the last "}" after
\* it; <<>> stands for "no match".
jsonMatch(content) ==
  LET opens == {i \in 1..Len(content) : HasOpen(content[i])}
  IN IF opens = {} THEN <<>>
     ELSE LET i == CHOOSE k \in opens : \A m \in opens : k <= m
              closes == {j \in i..Len(content) :
                           HasClose(content[j]) /\ (j > i \/ content[i].t = "object")}
          IN IF closes = {} THEN <<>>
             ELSE LET j == CHOOSE k \in closes : \A m \in closes : m <= k
                  IN SubSeq(content, i, j)

\* JSON.parse of the matched text: it is JSON exactly when it is the text
\* of one object.
ParsesAsJson(m) == Len(m) = 1 /\ m[1].t = "object"

\* chain.invoke, and in its catch the raw re-invocation and extraction.
InvokeChain(env) ==
  IF env.first.k = "value" THEN [threw |-> FALSE, analysis |-> env.first.v]
  ELSE IF env.raw.k = "throw" THEN [threw |-> TRUE, analysis |-> Undefined]
  ELSE LET m == jsonMatch(env.raw.content)
       IN IF m # <<>> /\ ParsesAsJson(m)
          THEN [threw |-> FALSE, analysis |-> m[1]]
          ELSE [threw |-> TRUE, analysis |-> Undefined]

\* The number of times analyzePost invokes the completion model: none when
\* building the template threw, once more in the catch of chain.invoke.
modelCalls(env) ==
  IF ResolveTemplate(env).threw THEN 0
  ELSE IF env.first.k = "value" THEN 1 ELSE 2

\* The kinds of external service analyzePost calls.
analyzePostCalls(env) ==
  {"registry"} \cup (IF modelCalls(env) > 0 THEN {"model"} ELSE {})

\* typeof x === 'number' ? x : 0.5
ScoreOrDefault_truthy(x) == OrElse(x, JNum(ScoreDefault))

ScoreOrDefault(x) == IF x.t = "number" THEN x ELSE JNum(ScoreDefault)

\* activePrompt?.metadata?.version
VersionOf(activePrompt) ==
  IF activePrompt = JNull THEN Undefined ELSE activePrompt.metadata.version

\* activePrompt?.metadata?.version || activePrompt?.metadata?.is_langchain_prompt
\*   ? 'latest' : 'fallback'          (`||` binds tighter than `?:`)
PromptVersion(activePrompt) ==
  IF \/ Truthy(VersionOf(activePrompt))
     \/ (activePrompt # JNull /\ activePrompt.metadata.is_langchain_prompt)
  THEN JStr("latest") ELSE JStr("fallback")

\* activePrompt?.id || 'fallback'
PromptId(activePrompt) ==
  IF activePrompt = JNull THEN JStr("fallback")
  ELSE OrElse(activePrompt.id, JStr("fallback"))

validatedAnalysis(post, analysis, activePrompt) ==
  [summary |-> OrElse(Get(analysis, "summary"), JStr(Substring(post.title, SummaryMax))),
   sentiment_score |-> ScoreOrDefault(Get(analysis, "sentiment_score")),
   relevance_score |-> ScoreOrDefault(Get(analysis, "relevance_score")),
   innovation_score |-> ScoreOrDefault(Get(analysis, "innovation_score")),
   market_viability |-> ScoreOrDefault(Get(analysis, "market_viability")),
   tags |-> IF Get(analysis, "tags").t = "array" THEN Get(analysis, "tags")
            ELSE JArr(<<"General">>),
   prompt_id |-> PromptId(activePrompt),
   prompt_version |-> PromptVersion(activePrompt)]

\* The result built in analyzePost's catch block.
fallbackAnalysis_untruncated(post) ==
  [summary |-> JStr(post.title),
   sentiment_score |-> JNum(ScoreDefault),
   relevance_score |-> JNum(ScoreDefault),
   innovation_score |-> JNum(ScoreDefault),
   market_viability |-> JNum(ScoreDefault),
   tags |-> JArr(<<"Unanalyzed">>),
   prompt_id |-> JStr("error"),
   prompt_version |-> JStr("error")]

fallbackAnalysis_nullScores(post) ==
  [summary |-> JStr(Substring(post.title, SummaryMax)),
   sentiment_score |-> JNull,
   relevance_score |-> JNull,
   innovation_score |-> JNull,
   market_viability |-> JNull,
   tags |-> JArr(<<"Unanalyzed">>),
   prompt_id |-> JStr("error"),
   prompt_version |-> JStr("error")]

fallbackAnalysis(post) ==
  [summary |-> JStr(Substring(post.title, SummaryMax)),
   sentiment_score |-> JNum(ScoreDefault),
   relevance_score |-> JNum(ScoreDefault),
   innovation_score |-> JNum(ScoreDefault),
   market_viability |-> JNum(ScoreDefault),
   tags |-> JArr(<<"Unanalyzed">>),
   prompt_id |-> JStr("error"),
   prompt_version |-> JStr("error")]

\* Whether an exception reaches analyzePost's top-level catch.
AnalysisThrows(env) ==
  LET r == ResolveTemplate(env)
  IN \/ r.threw
     \/ InvokeChain(env).threw
     \/ ~(InvokeChain(env).analysis.t \in {"object", "array"})

\* analyzePost(post) under the outcomes env of its external calls: how the
\* call ends (return or throw) and the value returned.
analyzePost_rethrow(post, env) ==
  IF AnalysisThrows(env)
  THEN [kind |-> "throw", value |-> Undefined]
  ELSE [kind |-> "return",
        value |-> validatedAnalysis(post, InvokeChain(env).analysis,
                                    ResolveTemplate(env).activePrompt)]

analyzePost(post, env) ==
  IF AnalysisThrows(env)
  THEN [kind |-> "return", value |-> fallbackAnalysis(post)]
  ELSE [kind |-> "return",
        value |-> validatedAnalysis(post, InvokeChain(env).analysis,
                                    ResolveTemplate(env).activePrompt)]

(* ------------------------------------------------------------------ *)
(* analyzeRedditPosts: the two records built from a post and its analysis *)
(* ------------------------------------------------------------------ *)
\* post.ups || 0, post.num_comments || 0
CountOf(x) == OrElse(x, JNum(0)).v

\* (post.ups || 0) + (post.num_comments || 0) * 2
trending_half(post) == CountOf(post.ups) + CountOf(post.num_comments)

trending_score(post) == CountOf(post.ups) + CountOf(post.num_comments) * 2

postData(post, subreddit) ==
  [reddit_id |-> post.id,
   subreddit |-> subreddit,
   title |-> post.title,
   content |-> IF post.selftext = "" THEN "" ELSE post.selftext,
   author |-> post.author,
   upvotes |-> CountOf(post.ups),
   comments |-> CountOf(post.num_comments)]

analyticsData(post, analysis) ==
  [sentiment_score |-> analysis.sentiment_score,
   relevance_score |-> analysis.relevance_score,
   innovation_score |-> analysis.innovation_score,
   market_viability |-> analysis.market_viability,
   trending_score |-> trending_score(post),
   ai_summary |-> analysis.summary,
   tags |-> OrElse(analysis.tags, JArr(<<>>)),
   prompt_id |-> OrElse(analysis.prompt_id, JStr("fallback")),
   prompt_version |-> OrElse(analysis.prompt_version, JStr("fallback"))]

(* ------------------------------------------------------------------ *)
(* The store: sql/setup-database.sql                                    *)
(* ------------------------------------------------------------------ *)
\* DECIMAL(3,2): a score is rounded to hundredths (half away from zero).
RoundCents(n) ==
  IF n >= 0 THEN ((n + 5) \div 10) * 10 ELSE 0 - (((0 - n) + 5) \div 10) * 10

\* The value a score column takes from the inserted JavaScript value.
ScoreColumn(x) == RoundCents(x.v)

\* CHECK (score >= 0 AND score <= 1), NOT NULL
ScoreCheck(x) == x.t = "number" /\ ScoreColumn(x) >= 0 /\ ScoreColumn(x) <= ScoreMax

\* The posts row an insert of postData creates; id is the generated key.
PostRow(pd, id) ==
  [id |-> id, reddit_id |-> pd.reddit_id, subreddit |-> pd.subreddit,
   title |-> pd.title, content |-> pd.content, author |-> pd.author,
   upvotes |-> pd.upvotes, comments |-> pd.comments]

\* The constraints of table posts: UNIQUE (reddit_id) and the CHECKs.
PostConstraints_nounique(pd, rows) ==
  /\ pd.reddit_id # "" /\ pd.subreddit # "" /\ pd.title # "" /\ pd.author # ""
  /\ pd.upvotes >= 0 /\ pd.comments >= 0

PostConstraints(pd, rows) ==
  /\ \A row \in rows : row.reddit_id # pd.reddit_id
  /\ pd.reddit_id # "" /\ pd.subreddit # "" /\ pd.title # "" /\ pd.author # ""
  /\ pd.upvotes >= 0 /\ pd.comments >= 0

\* The post_analytics row an insert of analyticsData creates.
AnalyticsRow(ad, post_id, id) ==
  [id |-> id, post_id |-> post_id,
   sentiment_score |-> ScoreColumn(ad.sentiment_score),
   relevance_score |-> ScoreColumn(ad.relevance_score),
   innovation_score |-> ScoreColumn(ad.innovation_score),
   market_viability |-> ScoreColumn(ad.market_viability),
   trending_score |-> ad.trending_score,
   ai_summary |-> ad.ai_summary,
   tags |-> ad.tags.v,
   prompt_id |-> ad.prompt_id.v,
   prompt_version |-> ad.prompt_version.v]

\* The constraints of table post_analytics: the foreign key, the CHECKs on
\* the four scores and on trending_score, NOT NULL on ai_summary.
AnalyticsConstraints(ad, post_id, rows) ==
  /\ \E row \in rows : row.id = post_id
  /\ \A f \in ScoreFields : ScoreCheck(ad[f])
  /\ ad.trending_score >= 0
  /\ ad.ai_summary.t \notin {"undefined", "null"}

(* ------------------------------------------------------------------ *)
(* Bounds and the inputs the model draws                                *)
(* ------------------------------------------------------------------ *)
\* Number of runs of the job (the scheduler runs it again and again).
MaxRuns == 2
\* Number of posts the content source returns to one run at most, over all
\* communities.
MaxFetched == 1

\* Number of posts the content source returns to the run of the ordering
\* check at most, over all communities.
MaxListed == 3

Runs == 1..MaxRuns

\* CONFIG.subreddits, the configured communities in their order: a value set
\* through SUBREDDITS, and the default.
Subreddits == <<"saas", "startups">>
DefaultSubreddits == <<"saas", "startups", "sideprojects">>

Chunk == "0123456789012345678901234567890123456789012345678"
\* A title of 201 characters, one more than the summary keeps.
LongTitle == Chunk \o Chunk \o Chunk \o Chunk \o "tail!"

\* The posts the content source holds in a community (the `data` of a
\* listing child).
SourcePosts(subreddit) ==
  IF subreddit = "saas"
  THEN {[id |-> "t3_a", title |-> "Idea: X", selftext |-> "", author |-> "alice",
         ups |-> JNum(10), num_comments |-> JNum(5)]}
  ELSE {[id |-> "t3_b", title |-> LongTitle, selftext |-> "body", author |-> "bob",
         ups |-> Undefined, num_comments |-> JNum(3)]}

RECURSIVE SeqsUpTo(_, _)
SeqsUpTo(S, n) ==
  IF n = 0 THEN {<<>>}
  ELSE SeqsUpTo(S, n - 1) \cup
       {Append(q, x) : q \in {q0 \in SeqsUpTo(S, n - 1) : Len(q0) = n - 1}, x \in S}

\* What the listing call of a community can return when `fetched` posts were
\* fetched before.
Listings(subreddit, fetched) == SeqsUpTo(SourcePosts(subreddit), MaxFetched - fetched)

\* The posts of the communities in the ordering check: two in the first.
ListedPosts(subreddit) ==
  IF subreddit = "saas"
  THEN SourcePosts(subreddit) \cup
       {[id |-> "t3_c", title |-> "Show: Y", selftext |-> "", author |-> "carol",
         ups |-> JNum(0), num_comments |-> Undefined]}
  ELSE IF subreddit = "startups" THEN SourcePosts(subreddit)
  ELSE {[id |-> "t3_d", title |-> "Ask: Z", selftext |-> "text", author |-> "dave",
         ups |-> JNum(2), num_comments |-> JNum(1)]}

WideListings(subreddit, fetched) ==
  SeqsUpTo(ListedPosts(subreddit), MaxListed - fetched)

RequiredEnv ==
  {"OPENAI_API_KEY", "NEXT_PUBLIC_SUPABASE_URL", "NEXT_PUBLIC_SUPABASE_ANON_KEY",
   "REDDIT_CLIENT_ID", "REDDIT_CLIENT_SECRET"}

\* The process environments a run is started in.
Environments ==
  {RequiredEnv, RequiredEnv \ {"OPENAI_API_KEY"},
   RequiredEnv \ {"REDDIT_CLIENT_ID", "REDDIT_CLIENT_SECRET"}}

\* A JSON object of the model output.
JObj(summary, s1, s2, s3, s4, tags) ==
  [t |-> "object", summary |-> summary, sentiment_score |-> s1,
   relevance_score |-> s2, innovation_score |-> s3, market_viability |-> s4,
   tags |-> tags]

HubFail == [ok |-> FALSE]
HubOk(iv) == [ok |-> TRUE, prompt |-> [t |-> "object", inputVariables |-> iv]]
ListFail == [ok |-> FALSE]
ListOk(items) == [ok |-> TRUE, items |-> items]
\* A call that threw; cause tells a failed model call from a parser that
\* rejected the model's text (the code does not tell them apart).
ThrownBy(cause) == [k |-> "throw", cause |-> cause]
Thrown == ThrownBy("model")
Value(v) == [k |-> "value", v |-> v]
RawText(content) == [k |-> "text", content |-> content]
Text == [t |-> "text"]
LBrace == [t |-> "lbrace"]
RBrace == [t |-> "rbrace"]

\* A prompt as the registry lists it.
RegistryPrompt(id, prompt, updated, version, active) ==
  [id |-> JStr(id), prompt |-> prompt, updated_at |-> updated,
   created_at |-> JNum(1), version |-> version, is_active |-> active]

GoodObject ==
  JObj(JStr("S"), JNum(900), JNum(800), JNum(700), JNum(600), JArr(<<"AI">>))

\* The outcomes of analyzePost's external calls that a run of the job draws.
RunEnvs ==
  { \* hub template, valid JSON at once
    [hub |-> HubOk(JArr(<<"content">>)), list1 |-> ListFail, list2 |-> ListFail,
     fromTemplateOk |-> TRUE, first |-> Value(GoodObject), raw |-> Thrown],
    \* no registry, fallback template, a score out of range and one missing
    [hub |-> HubFail, list1 |-> ListFail, list2 |-> ListFail,
     fromTemplateOk |-> TRUE,
     first |-> Value(JObj(JStr("S"), JNum(1700), Undefined, JNum(700), JNum(600),
                          Undefined)),
     raw |-> Thrown],
    \* the model call fails twice
    [hub |-> HubFail, list1 |-> ListFail, list2 |-> ListFail,
     fromTemplateOk |-> TRUE, first |-> Thrown, raw |-> Thrown] }

\* The values a field of the model output takes in the analyzer's check:
\* absent, null, a string, and numbers in and out of [0, 1].
ScoreVals ==
  {Undefined, JNull, JStr("0.9"), JNum(0), JNum(900), JNum(1000), JNum(1004),
   JNum(1700), JNum(0 - 200)}
SummaryVals == {Undefined, JStr(""), JStr("S")}
TagVals ==
  {Undefined, JStr("AI"), JArr(<<>>), JArr(<<"AI", "SaaS">>),
   JArr(<<"AI", "SaaS", "B2B", "Fintech", "DevTools", "Health">>)}

\* The model outputs of the analyzer's check: every value in each field with
\* the other fields good, and every mix of absent and out-of-range scores.
AnalyzerObjects ==
  {[GoodObject EXCEPT ![f] = v] : f \in ScoreFields, v \in ScoreVals}
  \cup {[GoodObject EXCEPT !.summary = v] : v \in SummaryVals}
  \cup {[GoodObject EXCEPT !.tags = v] : v \in TagVals}
  \cup {JObj(Undefined, s1, s2, s3, s4, Undefined) :
          s1 \in {Undefined, JNum(900), JNum(1700)}, s2 \in {Undefined, JNum(1700)},
          s3 \in {Undefined, JNum(1700)}, s4 \in {JStr("0.9"), JNum(0)}}

\* What the parser hands back: an object, or JSON that is no object.
AnalyzerValues ==
  AnalyzerObjects \cup {JNull, JNum(0), JNum(7), JStr("not json at all"), JArr(<<>>)}

\* Raw responses of the re-invocation.
AnalyzerRaw ==
  {Thrown,
   RawText(<<Text>>),
   RawText(<<Text, JObj(JStr("x"), Undefined, Undefined, Undefined, Undefined,
                        Undefined), Text>>),
   RawText(<<GoodObject>>),
   RawText(<<Text, GoodObject, Text, GoodObject>>),
   RawText(<<RBrace, Text, LBrace>>),
   RawText(<<LBrace, Text, RBrace>>)}

\* A listing longer than the ten prompts getPrompts reads: nine inactive
\* prompts, an active one updated at 5, and as eleventh an active one updated
\* at 20.
CrowdedListing ==
  [i \in 1..9 |-> RegistryPrompt("p-off", JStr("{content}"), JNum(i), JStr("v3"),
                                 Undefined)]
  \o <<RegistryPrompt("p-old", JStr("{content}"), JNum(5), JStr("v1"), JNum(1)),
       RegistryPrompt("p-late", JStr("{content}"), JNum(20), JStr("v4"), JNum(1))>>

\* Outcomes of the hub pull and of the registry listing.
AnalyzerPrompts ==
  {[hub |-> HubOk(JArr(<<"content">>)), list1 |-> ListFail, list2 |-> ListFail],
   [hub |-> HubOk(JArr(<<"foo", "bar">>)), list1 |-> ListFail, list2 |-> ListFail],
   [hub |-> HubOk(JArr(<<"question">>)), list1 |-> ListFail, list2 |-> ListFail],
   [hub |-> HubOk(Undefined), list1 |-> ListFail, list2 |-> ListFail],
   [hub |-> HubOk(JArr(<<>>)), list1 |-> ListFail, list2 |-> ListFail],
   [hub |-> HubOk(JArr(<<Chunk>>)), list1 |-> ListFail, list2 |-> ListFail],
   [hub |-> HubOk(JArr(<<Chunk \o "9">>)), list1 |-> ListFail, list2 |-> ListFail],
   [hub |-> HubFail, list1 |-> ListFail, list2 |-> ListFail],
   [hub |-> HubFail, list1 |-> ListOk(<<>>), list2 |-> ListFail],
   [hub |-> HubFail,
    list1 |-> ListOk(<<RegistryPrompt("p-old", JStr("{content}"), JNum(5),
                                      JStr("v1"), JNum(1)),
                       RegistryPrompt("p-new", JStr("{content}"), JNum(9),
                                      JStr("v2"), JNum(1)),
                       RegistryPrompt("p-off", JStr("{content}"), JNum(12),
                                      JStr("v3"), Undefined)>>),
    list2 |-> ListFail],
   [hub |-> HubFail, list1 |-> ListFail,
    list2 |-> ListOk(<<RegistryPrompt("p-raw", Undefined, Undefined, Undefined,
                                      JNum(1))>>)],
   [hub |-> HubFail, list1 |-> ListOk(CrowdedListing), list2 |-> ListFail],
   [hub |-> HubFail, list1 |-> ListFail,
    list2 |-> ListOk(<<RegistryPrompt("p-retry", JStr("{content}"), JNum(7),
                                      JStr("v5"), JNum(1))>>)]}

Env(p, fromTemplateOk, first, raw) ==
  [hub |-> p.hub, list1 |-> p.list1, list2 |-> p.list2,
   fromTemplateOk |-> fromTemplateOk, first |-> first, raw |-> raw]

FallbackPrompts == [hub |-> HubFail, list1 |-> ListFail, list2 |-> ListFail]

\* The outcomes of analyzePost's external calls in the analyzer's check.
AnalyzerEnvs ==
  {Env(FallbackPrompts, TRUE, Value(v), Thrown) : v \in AnalyzerValues}
  \cup {Env(FallbackPrompts, TRUE, ThrownBy(cause), raw) :
          cause \in {"model", "parser"}, raw \in AnalyzerRaw}
  \cup {Env(p, ok, first, Thrown) :
          p \in AnalyzerPrompts, ok \in BOOLEAN,
          first \in {Thrown, Value(GoodObject), Value(JNull)}}

\* The posts of the analyzer's check: both titles, and every mix of present,
\* zero and absent counts.
AnalyzerPosts ==
  UNION {SourcePosts(Subreddits[i]) : i \in 1..Len(Subreddits)}
  \cup {[id |-> "t3_c", title |-> "Idea: X", selftext |-> "", author |-> "carol",
          ups |-> u, num_comments |-> c] :
          u \in {Undefined, JNum(0), JNum(10)}, c \in {Undefined, JNum(0), JNum(5)}}

(* ------------------------------------------------------------------ *)
(* State                                                                *)
(* ------------------------------------------------------------------ *)
VARIABLES
  CONFIG,         \* CONFIG of config.js: subreddits, read once from the environment
  posts,          \* table posts
  post_analytics, \* table post_analytics
  pc,             \* pc[r]: where run r is in main()
  exitCode,       \* exitCode[r]: -1 while the process lives, else its exit status
  accessToken,    \* accessToken[r]: whether fetchRedditData holds a token
  nextSub,        \* nextSub[r]: index of the next community to fetch
  allPosts,       \* allPosts[r]: fetched posts, each with its source_subreddit
  nextPost,       \* nextPost[r]: index of the next item to analyze or to save
  analyzedPosts,  \* analyzedPosts[r]: sequence of {postData, analyticsData}
  analyzeCalls,   \* analyzeCalls[r]: the calls of analyzePost: the post's id, the
                  \* outcomes of its external calls, and how the call ended
  startIds,       \* startIds[r]: the reddit_ids in posts when run r started
  counters,       \* counters[r]: saved, skipped, errors of saveToDatabase
  totalProcessed, \* totalProcessed[r]
  savePc,         \* savePc[r]: where savePostToDatabase is, "none" between calls
  savedPost,      \* savedPost[r]: the row the parent insert returned
  saveStart,      \* saveStart[r]: the two tables as the last call found them
  lastResult,     \* lastResult[r]: what the last call returned
  saveCalls,      \* saveCalls[r]: the reddit_ids handed to savePostToDatabase
  fetchLog,       \* fetchLog[r]: the outcome of each turn of fetchRedditData's
                  \* loop (community, whether the listing call succeeded, the ids
                  \* listed, the time waited at the end of the turn), until the
                  \* function returns
  journal         \* journal[r]: what is known of run r also after it ended: the
                  \* names set in its process environment, the missing names it
                  \* reported, the kinds of external service it called, the
                  \* phases it entered, and the ids fetchRedditData returned

vars ==
  <<CONFIG, posts, post_analytics, pc, exitCode, accessToken, nextSub, allPosts, nextPost,
    analyzedPosts, analyzeCalls, startIds, counters, totalProcessed, savePc, savedPost,
    saveStart, lastResult, saveCalls, fetchLog, journal>>

storeVars == <<posts, post_analytics>>
Communities == CONFIG.subreddits
fetchVars == <<CONFIG, accessToken, nextSub, allPosts, fetchLog>>
analyzeVars == <<analyzedPosts, analyzeCalls, startIds>>
saveVars == <<counters, savePc, savedPost, saveStart, lastResult, saveCalls>>

NoRow == [id |-> 0]
NoResult == [kind |-> "none"]
NoJournal ==
  [env |-> {}, missing |-> {}, calls |-> {}, phases |-> <<>>, fetched |-> <<>>]

Init ==
  /\ CONFIG = [subreddits |-> Subreddits]
  /\ posts = {}
  /\ post_analytics = {}
  /\ pc = [r \in Runs |-> "start"]
  /\ exitCode = [r \in Runs |-> -1]
  /\ accessToken = [r \in Runs |-> FALSE]
  /\ nextSub = [r \in Runs |-> 1]
  /\ allPosts = [r \in Runs |-> <<>>]
  /\ nextPost = [r \in Runs |-> 1]
  /\ analyzedPosts = [r \in Runs |-> <<>>]
  /\ analyzeCalls = [r \in Runs |-> <<>>]
  /\ startIds = [r \in Runs |-> {}]
  /\ counters = [r \in Runs |-> [saved |-> 0, skipped |-> 0, errors |-> 0]]
  /\ totalProcessed = [r \in Runs |-> 0]
  /\ savePc = [r \in Runs |-> "none"]
  /\ savedPost = [r \in Runs |-> NoRow]
  /\ saveStart = [r \in Runs |-> [posts |-> {}, post_analytics |-> {}]]
  /\ lastResult = [r \in Runs |-> NoResult]
  /\ saveCalls = [r \in Runs |-> <<>>]
  /\ fetchLog = [r \in Runs |-> <<>>]
  /\ journal = [r \in Runs |-> NoJournal]

\* The job is run again only after the previous run has ended.
Scheduled(r) == IF r = 1 THEN TRUE ELSE exitCode[r - 1] # -1

(* ------------------------------------------------------------------ *)
(* main(): validateEnvironment, then STEP 1: fetchRedditData            *)
(* ------------------------------------------------------------------ *)
\* The process of run r ends with `status`: its memory is gone, the logged
\* summary (counters, totalProcessed), the journal and the exit status remain.
\* What the journal gets is left to the caller.
Exit_restart(r, status) ==
  /\ pc' = [pc EXCEPT ![r] = "start"]
  /\ exitCode' = [exitCode EXCEPT ![r] = status]
  /\ accessToken' = [accessToken EXCEPT ![r] = FALSE]
  /\ nextSub' = [nextSub EXCEPT ![r] = 1]
  /\ allPosts' = [allPosts EXCEPT ![r] = <<>>]
  /\ nextPost' = [nextPost EXCEPT ![r] = 1]
  /\ analyzedPosts' = [analyzedPosts EXCEPT ![r] = <<>>]
  /\ analyzeCalls' = [analyzeCalls EXCEPT ![r] = <<>>]
  /\ startIds' = [startIds EXCEPT ![r] = {}]
  /\ savedPost' = [savedPost EXCEPT ![r] = NoRow]
  /\ saveStart' = [saveStart EXCEPT ![r] = [posts |-> {}, post_analytics |-> {}]]
  /\ lastResult' = [lastResult EXCEPT ![r] = NoResult]
  /\ saveCalls' = [saveCalls EXCEPT ![r] = <<>>]
  /\ fetchLog' = [fetchLog EXCEPT ![r] = <<>>]
  /\ UNCHANGED <<CONFIG, storeVars, counters, totalProcessed, savePc>>

Exit(r, status) ==
  /\ pc' = [pc EXCEPT ![r] = "exited"]
  /\ exitCode' = [exitCode EXCEPT ![r] = status]
  /\ accessToken' = [accessToken EXCEPT ![r] = FALSE]
  /\ nextSub' = [nextSub EXCEPT ![r] = 1]
  /\ allPosts' = [allPosts EXCEPT ![r] = <<>>]
  /\ nextPost' = [nextPost EXCEPT ![r] = 1]
  /\ analyzedPosts' = [analyzedPosts EXCEPT ![r] = <<>>]
  /\ analyzeCalls' = [analyzeCalls EXCEPT ![r] = <<>>]
  /\ startIds' = [startIds EXCEPT ![r] = {}]
  /\ savedPost' = [savedPost EXCEPT ![r] = NoRow]
  /\ saveStart' = [saveStart EXCEPT ![r] = [posts |-> {}, post_analytics |-> {}]]
  /\ lastResult' = [lastResult EXCEPT ![r] = NoResult]
  /\ saveCalls' = [saveCalls EXCEPT ![r] = <<>>]
  /\ fetchLog' = [fetchLog EXCEPT ![r] = <<>>]
  /\ UNCHANGED <<CONFIG, storeVars, counters, totalProcessed, savePc>>

\* A call to a kind of external service is noted in the journal.
Calling(r, kinds) == [journal[r] EXCEPT !.calls = @ \cup kinds]
\* main enters a phase.
Entering(j, phase) == [j EXCEPT !.phases = Append(@, phase)]

\* validateEnvironment: every missing name is printed and process.exit(1)
\* follows when a required name is missing.
ValidateEnvironment_first(r) ==
  /\ pc[r] = "start"
  /\ \E environment \in Environments :
       LET missing == RequiredEnv \ environment
       IN IF missing # {}
          THEN /\ Exit(r, 1)
               /\ journal' = [journal EXCEPT ![r].env = environment,
                                              ![r].missing = {CHOOSE k \in missing : TRUE}]
          ELSE /\ pc' = [pc EXCEPT ![r] = "setup"]
               /\ startIds' = [startIds EXCEPT ![r] = {row.reddit_id : row \in posts}]
               /\ journal' = [journal EXCEPT ![r].env = environment]
               /\ UNCHANGED <<storeVars, exitCode, fetchVars, nextPost, analyzedPosts,
                              analyzeCalls, totalProcessed, saveVars>>

ValidateEnvironment(r) ==
  /\ pc[r] = "start"
  /\ \E environment \in Environments :
       LET missing == RequiredEnv \ environment
       IN IF missing # {}
          THEN /\ Exit(r, 1)
               /\ journal' = [journal EXCEPT ![r].env = environment,
                                              ![r].missing = missing]
          ELSE /\ pc' = [pc EXCEPT ![r] = "setup"]
               /\ startIds' = [startIds EXCEPT ![r] = {row.reddit_id : row \in posts}]
               /\ journal' = [journal EXCEPT ![r].env = environment]
               /\ UNCHANGED <<storeVars, exitCode, fetchVars, nextPost, analyzedPosts,
                              analyzeCalls, totalProcessed, saveVars>>

\* validateLangSmithSetup: getPrompts is called and what it finds is logged;
\* nothing it does can throw out of it.
ValidateLangSmithSetup(r) ==
  /\ pc[r] = "setup"
  /\ pc' = [pc EXCEPT ![r] = "token"]
  /\ journal' = [journal EXCEPT ![r] = Calling(r, {"registry"})]
  /\ UNCHANGED <<storeVars, exitCode, fetchVars, nextPost, analyzeVars,
                 totalProcessed, saveVars>>

\* main calls fetchRedditData, which first awaits getRedditAccessToken: a
\* failure is thrown out of fetchRedditData into main's catch, which exits
\* with status 1.
GetRedditAccessToken(r) ==
  /\ pc[r] = "token"
  /\ journal' = [journal EXCEPT ![r] = Entering(Calling(r, {"token"}), "FETCH")]
  /\ \E ok \in BOOLEAN :
       IF ok
       THEN /\ accessToken' = [accessToken EXCEPT ![r] = TRUE]
            /\ pc' = [pc EXCEPT ![r] = "fetch"]
            /\ UNCHANGED exitCode
            /\ UNCHANGED <<CONFIG, storeVars, nextSub, allPosts, fetchLog, nextPost, analyzeVars,
                           totalProcessed, saveVars>>
       ELSE Exit(r, 1)

\* posts.map(post => ({...post, source_subreddit: subreddit}))
WithSubreddit_reversed(listing, subreddit) ==
  [i \in 1..Len(listing) |->
     [post |-> listing[Len(listing) + 1 - i], source_subreddit |-> subreddit]]

WithSubreddit(listing, subreddit) ==
  [i \in 1..Len(listing) |-> [post |-> listing[i], source_subreddit |-> subreddit]]

\* The ids of a listing, and of fetched posts, in their order.
ListedIds(listing) == [i \in 1..Len(listing) |-> listing[i].id]
PostIds(items) == [i \in 1..Len(items) |-> items[i].post.id]

\* One turn of the loop over CONFIG.subreddits: fetchSubredditPosts either
\* returns a listing, one of `listings`, which is appended, or throws, which
\* is logged; the loop goes on with the next community in both cases.
FetchFrom_stop(r, listings) ==
  /\ pc[r] = "fetch"
  /\ nextSub[r] <= Len(Communities)
  /\ \E ok \in BOOLEAN, listing \in listings :
       /\ allPosts' = [allPosts EXCEPT ![r] =
                         IF ok THEN @ \o WithSubreddit(listing, Communities[nextSub[r]])
                         ELSE @]
       /\ fetchLog' = [fetchLog EXCEPT ![r] =
                         Append(@, [subreddit |-> Communities[nextSub[r]], ok |-> ok,
                                    ids |-> IF ok THEN ListedIds(listing) ELSE <<>>,
                                    waited |-> IF ok THEN RequestDelay ELSE 0])]
       /\ nextSub' = [nextSub EXCEPT ![r] = IF ok THEN @ + 1 ELSE Len(Communities) + 1]
  /\ journal' = [journal EXCEPT ![r] = Calling(r, {"listing"})]
  /\ UNCHANGED <<CONFIG, storeVars, pc, exitCode, accessToken, nextPost, analyzeVars,
                 totalProcessed, saveVars>>

FetchFrom(r, listings) ==
  /\ pc[r] = "fetch"
  /\ nextSub[r] <= Len(Communities)
  /\ \E ok \in BOOLEAN, listing \in listings :
       /\ allPosts' = [allPosts EXCEPT ![r] =
                         IF ok THEN @ \o WithSubreddit(listing, Communities[nextSub[r]])
                         ELSE @]
       /\ fetchLog' = [fetchLog EXCEPT ![r] =
                         Append(@, [subreddit |-> Communities[nextSub[r]], ok |-> ok,
                                    ids |-> IF ok THEN ListedIds(listing) ELSE <<>>,
                                    waited |-> IF ok THEN RequestDelay ELSE 0])]
  /\ nextSub' = [nextSub EXCEPT ![r] = @ + 1]
  /\ journal' = [journal EXCEPT ![r] = Calling(r, {"listing"})]
  /\ UNCHANGED <<CONFIG, storeVars, pc, exitCode, accessToken, nextPost, analyzeVars,
                 totalProcessed, saveVars>>

FetchSubreddit(r) ==
  FetchFrom(r, Listings(Communities[nextSub[r]], Len(allPosts[r])))

\* fetchRedditData returns allPosts; main calls analyzeRedditPosts.
FetchDone_early(r) ==
  /\ pc[r] = "fetch"
  /\ pc' = [pc EXCEPT ![r] = "analyze"]
  /\ nextPost' = [nextPost EXCEPT ![r] = 1]
  /\ fetchLog' = [fetchLog EXCEPT ![r] = <<>>]
  /\ journal' = [journal EXCEPT ![r] =
                   Entering([@ EXCEPT !.fetched = PostIds(allPosts[r])], "ANALYZE")]
  /\ UNCHANGED <<CONFIG, storeVars, exitCode, accessToken, nextSub, allPosts, analyzeVars,
                 totalProcessed, saveVars>>

FetchDone(r) ==
  /\ pc[r] = "fetch"
  /\ nextSub[r] > Len(Communities)
  /\ pc' = [pc EXCEPT ![r] = "analyze"]
  /\ nextPost' = [nextPost EXCEPT ![r] = 1]
  /\ fetchLog' = [fetchLog EXCEPT ![r] = <<>>]
  /\ journal' = [journal EXCEPT ![r] =
                   Entering([@ EXCEPT !.fetched = PostIds(allPosts[r])], "ANALYZE")]
  /\ UNCHANGED <<CONFIG, storeVars, exitCode, accessToken, nextSub, allPosts, analyzeVars,
                 totalProcessed, saveVars>>

(* ------------------------------------------------------------------ *)
(* STEP 2: analyzeRedditPosts                                           *)
(* ------------------------------------------------------------------ *)
\* One turn of the loop over allPosts: analyzePost is called under the
\* outcomes env of its external calls; its result is pushed, and a throw
\* would be caught and logged with nothing pushed.
AnalyzeOne(r, env) ==
  /\ pc[r] = "analyze"
  /\ nextPost[r] <= Len(allPosts[r])
  /\ LET item == allPosts[r][nextPost[r]]
         out == analyzePost(item.post, env)
     IN /\ analyzeCalls' = [analyzeCalls EXCEPT ![r] =
                               Append(@, [id |-> item.post.id, env |-> env,
                                          kind |-> out.kind,
                                          consulted |->
                                            getPromptsCalls(env.hub, env.list1, env.list2),
                                          template |-> ResolveTemplate(env).template,
                                          waited |-> IF out.kind = "return"
                                                     THEN RequestDelay ELSE 0])]
        /\ UNCHANGED startIds
        /\ analyzedPosts' =
             [analyzedPosts EXCEPT ![r] =
                IF out.kind = "return"
                THEN Append(@, [postData |-> postData(item.post, item.source_subreddit),
                                analyticsData |-> analyticsData(item.post, out.value)])
                ELSE @]
  /\ nextPost' = [nextPost EXCEPT ![r] = @ + 1]
  /\ journal' = [journal EXCEPT ![r] = Calling(r, analyzePostCalls(env))]
  /\ UNCHANGED <<storeVars, pc, exitCode, fetchVars, totalProcessed, saveVars>>

AnalyzeRedditPost(r) == \E env \in RunEnvs : AnalyzeOne(r, env)

\* analyzeRedditPosts returns; main sets totalProcessed = allPosts.length
\* and calls saveToDatabase.
AnalyzeDone(r) ==
  /\ pc[r] = "analyze"
  /\ nextPost[r] > Len(allPosts[r])
  /\ totalProcessed' = [totalProcessed EXCEPT ![r] = Len(allPosts[r])]
  /\ pc' = [pc EXCEPT ![r] = "persist"]
  /\ nextPost' = [nextPost EXCEPT ![r] = 1]
  /\ journal' = [journal EXCEPT ![r] = Entering(@, "PERSIST")]
  /\ UNCHANGED <<storeVars, exitCode, fetchVars, analyzeVars, saveVars>>

(* ------------------------------------------------------------------ *)
(* STEP 3: saveToDatabase and savePostToDatabase                        *)
(* ------------------------------------------------------------------ *)
\* The results savePostToDatabase returns; "" stands for an absent string.
Skipped == [saved |-> FALSE, skipped |-> TRUE, error |-> "", warning |-> ""]
Saved == [saved |-> TRUE, skipped |-> FALSE, error |-> "", warning |-> ""]
SavedWithWarning(message) ==
  [saved |-> TRUE, skipped |-> FALSE, error |-> "",
   warning |-> "Post saved but analytics failed: " \o message]
Failed(message) ==
  [saved |-> FALSE, skipped |-> FALSE, error |-> message, warning |-> ""]

\* The if / else-if chain of saveToDatabase on a returned result.
Counted_asError(c, result) ==
  IF result.saved /\ result.warning = "" THEN [c EXCEPT !.saved = @ + 1]
  ELSE IF result.skipped THEN [c EXCEPT !.skipped = @ + 1]
  ELSE [c EXCEPT !.errors = @ + 1]

Counted_skipAsSaved(c, result) ==
  IF result.saved \/ result.skipped THEN [c EXCEPT !.saved = @ + 1]
  ELSE IF result.error # "" THEN [c EXCEPT !.errors = @ + 1]
  ELSE c

Counted_dropSkipped(c, result) ==
  IF result.saved THEN [c EXCEPT !.saved = @ + 1]
  ELSE IF result.error # "" THEN [c EXCEPT !.errors = @ + 1]
  ELSE c

Counted(c, result) ==
  IF result.saved THEN [c EXCEPT !.saved = @ + 1]
  ELSE IF result.skipped THEN [c EXCEPT !.skipped = @ + 1]
  ELSE IF result.error # "" THEN [c EXCEPT !.errors = @ + 1]
  ELSE c

\* savePostToDatabase returns result to the loop of saveToDatabase, which
\* counts it and goes on to the next item.
\* lastResult also keeps the step the call returned from, whether the
\* database call of that step succeeded, and the counters before the count.
Return(r, step, callOk, result) ==
  /\ lastResult' = [lastResult EXCEPT ![r] =
                      [kind |-> "returned",
                       reddit_id |-> analyzedPosts[r][nextPost[r]].postData.reddit_id,
                       step |-> step,
                       callOk |-> callOk,
                       result |-> result,
                       before |-> counters[r]]]
  /\ counters' = [counters EXCEPT ![r] = Counted(@, result)]
  /\ savePc' = [savePc EXCEPT ![r] = "none"]
  /\ nextPost' = [nextPost EXCEPT ![r] = @ + 1]

\* gen_random_uuid(): a key no row of the table has.
NewId(rows) == Cardinality(rows) + 1

\* The message of a failed insert: the violated constraint's when the row
\* breaks one, else the transport's.
TransportError == "fetch failed"
ConstraintError == "violates constraint"
InsertError(constraintsHold) ==
  IF constraintsHold THEN TransportError ELSE ConstraintError

\* .from('posts').select('id').eq('reddit_id', id).single(): the row when the
\* call succeeds and exactly one row matches, else null (the error is dropped).
existingPost(rows, reddit_id, ok) ==
  LET matching == {row \in rows : row.reddit_id = reddit_id}
  IN IF ok /\ Cardinality(matching) = 1 THEN CHOOSE row \in matching : TRUE ELSE NoRow

\* The existence check: `if (existingPost) return { skipped: true }`.
SaveLookup_rescore(r) ==
  /\ pc[r] = "persist"
  /\ savePc[r] = "none"
  /\ nextPost[r] <= Len(analyzedPosts[r])
  /\ saveStart' = [saveStart EXCEPT ![r] = [posts |-> posts,
                                            post_analytics |-> post_analytics]]
  /\ saveCalls' = [saveCalls EXCEPT ![r] =
                     Append(@, analyzedPosts[r][nextPost[r]].postData.reddit_id)]
  /\ journal' = [journal EXCEPT ![r] = Calling(r, {"database"})]
  /\ \E ok \in BOOLEAN :
       LET found == existingPost(posts, analyzedPosts[r][nextPost[r]].postData.reddit_id, ok)
       IN IF found # NoRow
          THEN /\ savePc' = [savePc EXCEPT ![r] = "insertAnalytics"]
               /\ savedPost' = [savedPost EXCEPT ![r] = found]
               /\ UNCHANGED <<nextPost, counters, lastResult>>
          ELSE /\ savePc' = [savePc EXCEPT ![r] = "insertPost"]
               /\ UNCHANGED <<nextPost, counters, savedPost, lastResult>>
  /\ UNCHANGED <<storeVars, pc, exitCode, fetchVars, analyzeVars, totalProcessed>>

SaveLookup(r) ==
  /\ pc[r] = "persist"
  /\ savePc[r] = "none"
  /\ nextPost[r] <= Len(analyzedPosts[r])
  /\ saveStart' = [saveStart EXCEPT ![r] = [posts |-> posts,
                                            post_analytics |-> post_analytics]]
  /\ saveCalls' = [saveCalls EXCEPT ![r] =
                     Append(@, analyzedPosts[r][nextPost[r]].postData.reddit_id)]
  /\ journal' = [journal EXCEPT ![r] = Calling(r, {"database"})]
  /\ \E ok \in BOOLEAN :
       LET found == existingPost(posts, analyzedPosts[r][nextPost[r]].postData.reddit_id, ok)
       IN IF found # NoRow
          THEN /\ Return(r, "lookup", ok, Skipped)
               /\ UNCHANGED savedPost
          ELSE /\ savePc' = [savePc EXCEPT ![r] = "insertPost"]
               /\ UNCHANGED <<nextPost, counters, savedPost, lastResult>>
  /\ UNCHANGED <<storeVars, pc, exitCode, fetchVars, analyzeVars, totalProcessed>>

\* Step 1: insert the post.  The insert succeeds only if the table's
\* constraints hold; a failure is thrown and returned as { error }.
SaveInsertPost_partial(r) ==
  /\ savePc[r] = "insertPost"
  /\ LET pd == analyzedPosts[r][nextPost[r]].postData
         row == PostRow(pd, NewId(posts))
     IN \/ /\ PostConstraints(pd, posts)
           /\ posts' = posts \cup {row}
           /\ savedPost' = [savedPost EXCEPT ![r] = row]
           /\ savePc' = [savePc EXCEPT ![r] = "insertAnalytics"]
           /\ UNCHANGED <<post_analytics, nextPost, counters, lastResult>>
        \/ /\ Return(r, "insertPost", FALSE,
                     Failed(InsertError(PostConstraints(pd, posts))))
           /\ posts' = IF PostConstraints(pd, posts) THEN posts \cup {row} ELSE posts
           /\ UNCHANGED <<post_analytics, savedPost>>
  /\ UNCHANGED <<pc, exitCode, fetchVars, analyzeVars, totalProcessed, saveStart,
                 saveCalls, journal>>

SaveInsertPost(r) ==
  /\ savePc[r] = "insertPost"
  /\ LET pd == analyzedPosts[r][nextPost[r]].postData
         row == PostRow(pd, NewId(posts))
     IN \/ /\ PostConstraints(pd, posts)
           /\ posts' = posts \cup {row}
           /\ savedPost' = [savedPost EXCEPT ![r] = row]
           /\ savePc' = [savePc EXCEPT ![r] = "insertAnalytics"]
           /\ UNCHANGED <<post_analytics, nextPost, counters, lastResult>>
        \/ /\ Return(r, "insertPost", FALSE,
                     Failed("Failed to save post: "
                            \o InsertError(PostConstraints(pd, posts))))
           /\ UNCHANGED <<storeVars, savedPost>>
  /\ UNCHANGED <<pc, exitCode, fetchVars, analyzeVars, totalProcessed, saveStart,
                 saveCalls, journal>>

\* Step 2: insert the analytics row with post_id = savedPost.id.  A failure
\* is returned as saved with a warning; the post stays.
SaveInsertAnalytics(r) ==
  /\ savePc[r] = "insertAnalytics"
  /\ LET ad == analyzedPosts[r][nextPost[r]].analyticsData
         post_id == savedPost[r].id
     IN \/ /\ AnalyticsConstraints(ad, post_id, posts)
           /\ post_analytics' =
                post_analytics \cup {AnalyticsRow(ad, post_id, NewId(post_analytics))}
           /\ Return(r, "insertAnalytics", TRUE, Saved)
        \/ /\ Return(r, "insertAnalytics", FALSE,
                     SavedWithWarning(
                       InsertError(AnalyticsConstraints(ad, post_id, posts))))
           /\ UNCHANGED post_analytics
  /\ UNCHANGED <<posts, pc, exitCode, fetchVars, analyzeVars, totalProcessed,
                 savedPost, saveStart, saveCalls, journal>>

\* saveToDatabase returns { saved, skipped, errors }.
PersistDone(r) ==
  /\ pc[r] = "persist"
  /\ savePc[r] = "none"
  /\ nextPost[r] > Len(analyzedPosts[r])
  /\ pc' = [pc EXCEPT ![r] = "report"]
  /\ journal' = [journal EXCEPT ![r] = Entering(@, "REPORT")]
  /\ UNCHANGED <<storeVars, exitCode, fetchVars, nextPost, analyzeVars,
                 totalProcessed, saveVars>>

\* logJobSummary, then `if (totalErrors > totalProcessed * 0.5) process.exit(1)`.
Report(r) ==
  /\ pc[r] = "report"
  /\ Exit(r, IF 2 * counters[r].errors > totalProcessed[r] THEN 1 ELSE 0)
  /\ UNCHANGED journal

Next ==
  \/ \E r \in Runs : Scheduled(r) /\ ValidateEnvironment(r)
  \/ \E r \in Runs : Scheduled(r) /\ ValidateLangSmithSetup(r)
  \/ \E r \in Runs : Scheduled(r) /\ GetRedditAccessToken(r)
  \/ \E r \in Runs : Scheduled(r) /\ FetchSubreddit(r)
  \/ \E r \in Runs : Scheduled(r) /\ FetchDone(r)
  \/ \E r \in Runs : Scheduled(r) /\ AnalyzeRedditPost(r)
  \/ \E r \in Runs : Scheduled(r) /\ AnalyzeDone(r)
  \/ \E r \in Runs : Scheduled(r) /\ SaveLookup(r)
  \/ \E r \in Runs : Scheduled(r) /\ SaveInsertPost(r)
  \/ \E r \in Runs : Scheduled(r) /\ SaveInsertAnalytics(r)
  \/ \E r \in Runs : Scheduled(r) /\ PersistDone(r)
  \/ \E r \in Runs : Scheduled(r) /\ Report(r)

Spec == Init /\ [][Next]_vars

(* ------------------------------------------------------------------ *)
(* The analyzer's check: one run that holds one fetched post, analyzed   *)
(* under every outcome of AnalyzerEnvs and then saved.                   *)
(* ------------------------------------------------------------------ *)
InitAnalyze ==
  /\ CONFIG = [subreddits |-> Subreddits]
  /\ posts = {}
  /\ post_analytics = {}
  /\ pc = [r \in Runs |-> IF r = 1 THEN "analyze" ELSE "start"]
  /\ exitCode = [r \in Runs |-> -1]
  /\ accessToken = [r \in Runs |-> r = 1]
  /\ nextSub = [r \in Runs |-> IF r = 1 THEN Len(Subreddits) + 1 ELSE 1]
  /\ \E post \in AnalyzerPosts :
       /\ allPosts = [r \in Runs |->
                        IF r = 1 THEN <<[post |-> post, source_subreddit |-> Subreddits[1]]>>
                        ELSE <<>>]
       /\ journal = [r \in Runs |->
                       IF r = 1
                       THEN [env |-> RequiredEnv, missing |-> {},
                             calls |-> {"registry", "token", "listing"},
                             phases |-> <<"FETCH", "ANALYZE">>, fetched |-> <<post.id>>]
                       ELSE NoJournal]
  /\ nextPost = [r \in Runs |-> 1]
  /\ analyzedPosts = [r \in Runs |-> <<>>]
  /\ analyzeCalls = [r \in Runs |-> <<>>]
  /\ startIds = [r \in Runs |-> {}]
  /\ counters = [r \in Runs |-> [saved |-> 0, skipped |-> 0, errors |-> 0]]
  /\ totalProcessed = [r \in Runs |-> 0]
  /\ savePc = [r \in Runs |-> "none"]
  /\ savedPost = [r \in Runs |-> NoRow]
  /\ saveStart = [r \in Runs |-> [posts |-> {}, post_analytics |-> {}]]
  /\ lastResult = [r \in Runs |-> NoResult]
  /\ saveCalls = [r \in Runs |-> <<>>]
  /\ fetchLog = [r \in Runs |-> <<>>]

AnalyzePostWide == \E env \in AnalyzerEnvs : AnalyzeOne(1, env)

NextAnalyze ==
  \/ AnalyzePostWide
  \/ AnalyzeDone(1)
  \/ SaveLookup(1)
  \/ SaveInsertPost(1)
  \/ SaveInsertAnalytics(1)
  \/ PersistDone(1)

SpecAnalyze == InitAnalyze /\ [][NextAnalyze]_vars

(* ------------------------------------------------------------------ *)
(* The ordering check: one run over the default communities, whose       *)
(* listings hold up to MaxListed posts, two of them distinct in one      *)
(* community.                                                            *)
(* ------------------------------------------------------------------ *)
InitFetch ==
  /\ CONFIG = [subreddits |-> DefaultSubreddits]
  /\ posts = {}
  /\ post_analytics = {}
  /\ pc = [r \in Runs |-> "start"]
  /\ exitCode = [r \in Runs |-> -1]
  /\ accessToken = [r \in Runs |-> FALSE]
  /\ nextSub = [r \in Runs |-> 1]
  /\ allPosts = [r \in Runs |-> <<>>]
  /\ nextPost = [r \in Runs |-> 1]
  /\ analyzedPosts = [r \in Runs |-> <<>>]
  /\ analyzeCalls = [r \in Runs |-> <<>>]
  /\ startIds = [r \in Runs |-> {}]
  /\ counters = [r \in Runs |-> [saved |-> 0, skipped |-> 0, errors |-> 0]]
  /\ totalProcessed = [r \in Runs |-> 0]
  /\ savePc = [r \in Runs |-> "none"]
  /\ savedPost = [r \in Runs |-> NoRow]
  /\ saveStart = [r \in Runs |-> [posts |-> {}, post_analytics |-> {}]]
  /\ lastResult = [r \in Runs |-> NoResult]
  /\ saveCalls = [r \in Runs |-> <<>>]
  /\ fetchLog = [r \in Runs |-> <<>>]
  /\ journal = [r \in Runs |-> NoJournal]

FetchSubredditWide ==
  FetchFrom(1, WideListings(Communities[nextSub[1]], Len(allPosts[1])))

NextFetch ==
  \/ ValidateEnvironment(1)
  \/ ValidateLangSmithSetup(1)
  \/ GetRedditAccessToken(1)
  \/ FetchSubredditWide
  \/ FetchDone(1)
  \/ AnalyzeRedditPost(1)
  \/ AnalyzeDone(1)
  \/ SaveLookup(1)
  \/ SaveInsertPost(1)
  \/ SaveInsertAnalytics(1)
  \/ PersistDone(1)
  \/ Report(1)

SpecFetch == InitFetch /\ [][NextFetch]_vars

(* ------------------------------------------------------------------ *)
(* One run of the job on a store that earlier runs have left, under the *)
(* assumption that every await of main() settles.                       *)
(* ------------------------------------------------------------------ *)
\* The stores an earlier run leaves: empty, or holding the first community's
\* item, with the analytics row of a degraded analysis or without one.
StoresLeft ==
  {[posts |-> {}, post_analytics |-> {}]}
  \cup UNION {
       {[posts |-> {PostRow(postData(post, Subreddits[1]), 1)},
         post_analytics |-> {}],
        [posts |-> {PostRow(postData(post, Subreddits[1]), 1)},
         post_analytics |->
           {AnalyticsRow(analyticsData(post, fallbackAnalysis(post)), 1, 1)}]} :
       post \in SourcePosts(Subreddits[1])}

InitRun ==
  /\ CONFIG = [subreddits |-> Subreddits]
  /\ \E store \in StoresLeft :
       /\ posts = store.posts
       /\ post_analytics = store.post_analytics
  /\ pc = [r \in Runs |-> "start"]
  /\ exitCode = [r \in Runs |-> -1]
  /\ accessToken = [r \in Runs |-> FALSE]
  /\ nextSub = [r \in Runs |-> 1]
  /\ allPosts = [r \in Runs |-> <<>>]
  /\ nextPost = [r \in Runs |-> 1]
  /\ analyzedPosts = [r \in Runs |-> <<>>]
  /\ analyzeCalls = [r \in Runs |-> <<>>]
  /\ startIds = [r \in Runs |-> {}]
  /\ counters = [r \in Runs |-> [saved |-> 0, skipped |-> 0, errors |-> 0]]
  /\ totalProcessed = [r \in Runs |-> 0]
  /\ savePc = [r \in Runs |-> "none"]
  /\ savedPost = [r \in Runs |-> NoRow]
  /\ saveStart = [r \in Runs |-> [posts |-> {}, post_analytics |-> {}]]
  /\ lastResult = [r \in Runs |-> NoResult]
  /\ saveCalls = [r \in Runs |-> <<>>]
  /\ fetchLog = [r \in Runs |-> <<>>]
  /\ journal = [r \in Runs |-> NoJournal]

NextRun ==
  \/ ValidateEnvironment(1)
  \/ ValidateLangSmithSetup(1)
  \/ GetRedditAccessToken(1)
  \/ FetchSubreddit(1)
  \/ FetchDone(1)
  \/ AnalyzeRedditPost(1)
  \/ AnalyzeDone(1)
  \/ SaveLookup(1)
  \/ SaveInsertPost(1)
  \/ SaveInsertAnalytics(1)
  \/ PersistDone(1)
  \/ Report(1)

SpecRun == InitRun /\ [][NextRun]_vars

\* Every await of main() settles: a step that can be taken is taken.
FairRun == SpecRun /\ WF_vars(NextRun)

(* ------------------------------------------------------------------ *)
(* Runs that execute at the same time: each has fetched and analyzed    *)
(* the same item and is about to save it; their database calls          *)
(* interleave.                                                          *)
(* ------------------------------------------------------------------ *)
InitRace ==
  /\ CONFIG = [subreddits |-> Subreddits]
  /\ posts = {}
  /\ post_analytics = {}
  /\ pc = [r \in Runs |-> "persist"]
  /\ exitCode = [r \in Runs |-> -1]
  /\ accessToken = [r \in Runs |-> TRUE]
  /\ nextSub = [r \in Runs |-> Len(Subreddits) + 1]
  /\ \E post \in SourcePosts(Subreddits[1]) : \E envs \in [Runs -> RunEnvs] :
       LET item == [post |-> post, source_subreddit |-> Subreddits[1]]
       IN /\ allPosts = [r \in Runs |-> <<item>>]
          /\ analyzedPosts =
               [r \in Runs |->
                  <<[postData |-> postData(post, Subreddits[1]),
                     analyticsData |->
                       analyticsData(post, analyzePost(post, envs[r]).value)]>>]
          /\ analyzeCalls =
               [r \in Runs |->
                  <<[id |-> post.id, env |-> envs[r],
                     kind |-> analyzePost(post, envs[r]).kind,
                     consulted |-> getPromptsCalls(envs[r].hub, envs[r].list1,
                                                   envs[r].list2),
                     template |-> ResolveTemplate(envs[r]).template,
                     waited |-> RequestDelay]>>]
          /\ journal =
               [r \in Runs |->
                  [env |-> RequiredEnv, missing |-> {},
                   calls |-> {"registry", "token", "listing"}
                               \cup analyzePostCalls(envs[r]),
                   phases |-> <<"FETCH", "ANALYZE", "PERSIST">>,
                   fetched |-> <<post.id>>]]
  /\ nextPost = [r \in Runs |-> 1]
  /\ startIds = [r \in Runs |-> {}]
  /\ counters = [r \in Runs |-> [saved |-> 0, skipped |-> 0, errors |-> 0]]
  /\ totalProcessed = [r \in Runs |-> 1]
  /\ savePc = [r \in Runs |-> "none"]
  /\ savedPost = [r \in Runs |-> NoRow]
  /\ saveStart = [r \in Runs |-> [posts |-> {}, post_analytics |-> {}]]
  /\ lastResult = [r \in Runs |-> NoResult]
  /\ saveCalls = [r \in Runs |-> <<>>]
  /\ fetchLog = [r \in Runs |-> <<>>]

NextRace ==
  \/ \E r \in Runs : SaveLookup(r)
  \/ \E r \in Runs : SaveInsertPost(r)
  \/ \E r \in Runs : SaveInsertAnalytics(r)
  \/ \E r \in Runs : PersistDone(r)
  \/ \E r \in Runs : Report(r)

SpecRace == InitRace /\ [][NextRace]_vars

(* ------------------------------------------------------------------ *)
(* Properties                                                           *)
(* ------------------------------------------------------------------ *)
\* Run r is between two calls of savePostToDatabase, after one returned.
Returned(r) == savePc[r] = "none" /\ lastResult[r].kind = "returned"

\* The two tables are as the last call of run r found them.
StoreAsFound(r) ==
  posts = saveStart[r].posts /\ post_analytics = saveStart[r].post_analytics

\* The item of the last call was in posts, by reddit_id, when the call began.
PresentAtCall(r) ==
  \E row \in saveStart[r].posts : row.reddit_id = lastResult[r].reddit_id

AnalyticsOf(row) == {a \in post_analytics : a.post_id = row.id}
RowsOf(reddit_id) == {row \in posts : row.reddit_id = reddit_id}
Calls(r) == 1..Len(analyzeCalls[r])
Analyzed(r) == 1..Len(analyzedPosts[r])

\* The degraded result for a title, as it reaches the analytics record.
IsDegraded(ad, title) ==
  /\ \A f \in ScoreFields : ad[f] = JNum(ScoreDefault)
  /\ ad.ai_summary = JStr(Substring(title, SummaryMax))
  /\ ad.tags = JArr(<<"Unanalyzed">>)
  /\ ad.prompt_id = JStr("error")
  /\ ad.prompt_version = JStr("error")

TitleOf(r, i) == allPosts[r][i].post.title

\* C1: analyzePost never propagates an exception: every call, whatever the
\* outcome of prompt resolution, model invocation and parsing, returns, and
\* its result is pushed to analyzedPosts.
C1_AnalyzePostAlwaysReturns ==
  \A r \in Runs :
    /\ \A i \in Calls(r) : analyzeCalls[r][i].kind = "return"
    /\ Len(analyzedPosts[r]) = Len(analyzeCalls[r])

\* A call in which both invocations of the model threw has returned.
C1_Witness ==
  \E i \in Calls(1) :
    /\ analyzeCalls[1][i].env.first.k = "throw"
    /\ analyzeCalls[1][i].env.raw.k = "throw"
    /\ analyzeCalls[1][i].kind = "return"
    /\ Len(analyzedPosts[1]) = i

\* C2: for an item already in posts by reddit_id, savePostToDatabase returns
\* skipped and leaves both tables as it found them.
C2_ExistingItemIsSkipped ==
  \A r \in Runs :
    (Returned(r) /\ PresentAtCall(r)) =>
      (lastResult[r].result = Skipped /\ StoreAsFound(r))

C4_ParentInsertFailure ==
  /\ \A r \in Runs :
       (Returned(r) /\ lastResult[r].step = "insertPost") =>
         /\ lastResult[r].result \in
              {Failed("Failed to save post: " \o m) : m \in {TransportError, ConstraintError}}
         /\ StoreAsFound(r)
  /\ \A a \in post_analytics : \E row \in posts : row.id = a.post_id

\* A failed insert into posts has been returned while the store holds rows.
C4_Witness ==
  /\ Returned(2)
  /\ lastResult[2].step = "insertPost"
  /\ lastResult[2].result.error # ""
  /\ post_analytics # {}

\* C5: when the insert into posts succeeds and the insert into post_analytics
\* fails, the result is saved with a warning, the posts row stays, and the
\* orchestrator counts the item as saved, not as an error.
C5_AnalyticsInsertFailure ==
  \A r \in Runs :
    (Returned(r) /\ lastResult[r].step = "insertAnalytics" /\ ~lastResult[r].callOk) =>
      /\ lastResult[r].result.saved
      /\ lastResult[r].result.warning # ""
      /\ lastResult[r].result.error = ""
      /\ RowsOf(lastResult[r].reddit_id) # {}
      /\ post_analytics = saveStart[r].post_analytics
      /\ counters[r] = [lastResult[r].before EXCEPT !.saved = @ + 1]

C5_Witness ==
  /\ Returned(1)
  /\ lastResult[1].step = "insertAnalytics"
  /\ ~lastResult[1].callOk
  /\ counters[1] = [saved |-> 1, skipped |-> 0, errors |-> 0]
  /\ posts # {}

\* A number within the closed range 0.0 to 1.0.
InUnitRange(x) == x.t = "number" /\ 0 <= x.v /\ x.v <= ScoreMax

\* C6: each of the four scores of every analysis result, as handed to the
\* persistence layer, lies within 0.0 and 1.0.
C6_ScoresWithinUnitRange ==
  \A r \in Runs : \A i \in Analyzed(r) : \A f \in ScoreFields :
    InUnitRange(analyzedPosts[r][i].analyticsData[f])

\* The model output of call i of run r when it was parsed into an object.
ParsedObject(r, i) ==
  LET env == analyzeCalls[r][i].env
  IN /\ ~ResolveTemplate(env).threw
     /\ ~InvokeChain(env).threw
     /\ InvokeChain(env).analysis.t = "object"

\* C7: when a score field of the parsed model output is missing or not a
\* number, that score is exactly 0.5 in the result and in the persisted row;
\* the numeric scores, the summary and the tags of the output are kept.
C7_MissingScoreDefaults ==
  \A r \in Runs : \A i \in Analyzed(r) :
    ParsedObject(r, i) =>
      LET output == InvokeChain(analyzeCalls[r][i].env).analysis
          ad == analyzedPosts[r][i].analyticsData
      IN /\ \A f \in ScoreFields :
              /\ output[f].t # "number" => ad[f] = JNum(ScoreDefault)
              /\ output[f].t = "number" => ad[f] = output[f]
              /\ (output[f].t # "number" /\ Len(analyzedPosts[r]) = 1) =>
                   \A a \in post_analytics : a[f] = ScoreDefault
         /\ Truthy(output.summary) => ad.ai_summary = output.summary
         /\ output.tags.t = "array" => ad.tags = output.tags

\* A row was persisted whose sentiment score the output gave as a string.
C7_Witness ==
  /\ Len(analyzedPosts[1]) = 1
  /\ ParsedObject(1, 1)
  /\ InvokeChain(analyzeCalls[1][1].env).analysis.sentiment_score.t = "string"
  /\ InvokeChain(analyzeCalls[1][1].env).analysis.relevance_score = JNum(800)
  /\ \E a \in post_analytics :
       a.sentiment_score = ScoreDefault /\ a.relevance_score = 800

\* The first invocation failed in the model call itself.
ModelCallFailed(env) == env.first.k = "throw" /\ env.first.cause = "model"

\* The parse failed and so did the secondary extraction.
ParseExhausted(env) ==
  /\ env.first.k = "throw"
  /\ env.raw.k = "text"
  /\ \A j \in 1..Len(env.raw.content) : env.raw.content[j].t # "object"

\* C8 as stated: when the template cannot be built, the model invocation
\* fails, or parsing fails even after the secondary extraction, the result
\* is the degraded one.
C8_AnyFailureDegrades ==
  \A r \in Runs : \A i \in Analyzed(r) :
    LET env == analyzeCalls[r][i].env
    IN (ResolveTemplate(env).threw \/ ModelCallFailed(env) \/ ParseExhausted(env)) =>
         IsDegraded(analyzedPosts[r][i].analyticsData, TitleOf(r, i))

\* An exception reaches the top-level handler of analyzePost.
ReachesHandler(env) ==
  \/ ResolveTemplate(env).threw
  \/ env.first.k = "throw" /\ env.raw.k = "throw"
  \/ /\ env.first.k = "throw" /\ env.raw.k = "text"
     /\ ~(\E j \in 1..Len(env.raw.content) :
            /\ env.raw.content[j].t = "object"
            /\ \A k \in 1..Len(env.raw.content) :
                 (k # j) => env.raw.content[k].t = "text")
  \/ env.first.k = "value" /\ env.first.v.t \notin {"object", "array"}

\* C8 as amended: the result is the degraded one exactly when an exception
\* reaches the top-level handler: the template cannot be built, the raw
\* re-invocation fails too, the extraction yields no parsable object, or the
\* parsed value is no object.  A first invocation that failed and whose
\* re-invocation yields an object gives a regular result.
C8_UnrecoveredFailureDegrades ==
  \A r \in Runs : \A i \in Analyzed(r) :
    LET env == analyzeCalls[r][i].env
        ad == analyzedPosts[r][i].analyticsData
    IN /\ ReachesHandler(env) => IsDegraded(ad, TitleOf(r, i))
       /\ ~ReachesHandler(env) => ad.prompt_id # JStr("error")

\* A long title was cut to 200 characters in a degraded result.
C8_Witness ==
  \E i \in Analyzed(1) :
    /\ ReachesHandler(analyzeCalls[1][i].env)
    /\ Len(TitleOf(1, i)) > SummaryMax
    /\ Len(analyzedPosts[1][i].analyticsData.ai_summary.v) = SummaryMax
    /\ analyzedPosts[1][i].analyticsData.tags = JArr(<<"Unanalyzed">>)

\* A count of the source, a missing one taken as 0.
CountOrZero(x) == IF x.t = "number" THEN x.v ELSE 0

\* C9: the trending score of every analyzed item is upvotes + 2 * comments.
C9_TrendingScore ==
  \A r \in Runs : \A i \in Analyzed(r) :
    /\ analyzedPosts[r][i].analyticsData.trending_score =
         CountOrZero(allPosts[r][i].post.ups)
           + 2 * CountOrZero(allPosts[r][i].post.num_comments)
    /\ analyzedPosts[r][i].analyticsData.trending_score =
         analyzedPosts[r][i].postData.upvotes + 2 * analyzedPosts[r][i].postData.comments
    /\ \A row \in posts : \A a \in AnalyticsOf(row) :
         a.trending_score = row.upvotes + 2 * row.comments

\* The item with 10 upvotes and 5 comments was persisted with score 20.
C9_Witness ==
  /\ \E i \in Analyzed(1) :
       /\ allPosts[1][i].post.ups = JNum(10)
       /\ allPosts[1][i].post.num_comments = JNum(5)
       /\ analyzedPosts[1][i].analyticsData.trending_score = 20
  /\ \E a \in post_analytics : a.trending_score = 20

Range(q) == {q[i] : i \in 1..Len(q)}

\* Run r went through all four phases.
Completed(r) == Len(journal[r].phases) = 4

\* Run r + 1 is about to report, after run r, and both fetched the same
\* sequence of items.
Rerun(r) ==
  /\ r + 1 \in Runs
  /\ Completed(r) /\ exitCode[r] # -1
  /\ pc[r + 1] = "report"
  /\ journal[r + 1].fetched = journal[r].fetched

EndedAfterCheck(r) == exitCode[r] # -1 /\ journal[r].missing = {}

\* C12: after the environment check has passed, a run ends with a non-zero
\* status if and only if its error count is more than half of the items
\* processed.
C12_ExitStatusByErrorShare ==
  \A r \in Runs :
    EndedAfterCheck(r) =>
      (exitCode[r] # 0 <=> 2 * counters[r].errors > totalProcessed[r])

\* The concatenation of the ids listed by the turns of the fetch loop.
RECURSIVE Listed(_)
Listed(log) == IF log = <<>> THEN <<>> ELSE Head(log).ids \o Listed(Tail(log))

\* C13: a content-source failure, of authentication or of a listing, never
\* aborts the run: a failed community contributes no items and the run goes
\* on through ANALYZE, PERSIST and REPORT.
C13_SourceFailureNeverAborts ==
  \A r \in Runs :
    /\ EndedAfterCheck(r) => Completed(r)
    /\ pc[r] = "fetch" =>
         /\ PostIds(allPosts[r]) = Listed(fetchLog[r])
         /\ \A i \in 1..Len(fetchLog[r]) : ~fetchLog[r][i].ok => fetchLog[r][i].ids = <<>>

\* C14: when the listing call fails for a community, every later configured
\* community is still fetched, in order, and the items fetched before are
\* kept: the fetch loop ends only after the last community, and the items
\* of the successful listings are what ANALYZE receives.
C14_ListingFailureIsSkipped ==
  \A r \in Runs :
    /\ pc[r] = "fetch" =>
         /\ Len(fetchLog[r]) = nextSub[r] - 1
         /\ \A i \in 1..Len(fetchLog[r]) : fetchLog[r][i].subreddit = Communities[i]
         /\ PostIds(allPosts[r]) = Listed(fetchLog[r])
    /\ pc[r] \in {"analyze", "persist", "report"} =>
         /\ nextSub[r] = Len(Communities) + 1
         /\ PostIds(allPosts[r]) = journal[r].fetched
    /\ pc[r] \in {"persist", "report"} =>
         [i \in 1..Len(analyzeCalls[r]) |-> analyzeCalls[r][i].id] = journal[r].fetched

\* The second of three listings failed; the first item is kept and the
\* third community was fetched.
C14_Witness ==
  /\ pc[1] = "fetch"
  /\ Len(fetchLog[1]) = 3
  /\ fetchLog[1][1].ok /\ ~fetchLog[1][2].ok /\ fetchLog[1][3].ok
  /\ PostIds(allPosts[1]) = <<"t3_a", "t3_d">>

\* The last call of savePostToDatabase in run r was for an item whose model
\* calls both failed, whose result has tags ["Unanalyzed"], and which was
\* not in the store.
DegradedItemSaved(r) ==
  /\ Returned(r)
  /\ ~PresentAtCall(r)
  /\ LET k == Len(saveCalls[r])
     IN /\ k \in Analyzed(r) /\ k \in Calls(r)
        /\ analyzeCalls[r][k].env.first.k = "throw"
        /\ analyzeCalls[r][k].env.raw.k = "throw"
        /\ analyzedPosts[r][k].analyticsData.tags = JArr(<<"Unanalyzed">>)

\* C15: an item whose scoring degraded is persisted like any other item:
\* when the two inserts go through, its posts row and its degraded analytics
\* row are stored and it is counted as saved; the degraded record breaks no
\* constraint, and the error counter moves only when the insert into posts
\* itself fails.
C15_DegradedItemIsPersisted ==
  \A r \in Runs :
    DegradedItemSaved(r) =>
      LET last == lastResult[r]
          k == Len(saveCalls[r])
      IN /\ (last.step = "insertAnalytics" /\ last.callOk) =>
              /\ last.result = Saved
              /\ counters[r] = [last.before EXCEPT !.saved = @ + 1]
              /\ \E row \in RowsOf(last.reddit_id) : \E a \in AnalyticsOf(row) :
                   /\ a.tags = <<"Unanalyzed">>
                   /\ \A f \in ScoreFields : a[f] = ScoreDefault
                   /\ a.prompt_id = "error" /\ a.prompt_version = "error"
                   /\ a.ai_summary = JStr(Substring(TitleOf(r, k), SummaryMax))
         /\ (last.step = "insertAnalytics" /\ ~last.callOk) =>
              last.result = SavedWithWarning(TransportError)
         /\ counters[r].errors # last.before.errors => last.step = "insertPost"
         /\ last.step = "insertPost" =>
              last.result = Failed("Failed to save post: " \o TransportError)

\* A degraded item was saved with its analytics row and no error counted.
C15_Witness ==
  /\ DegradedItemSaved(1)
  /\ lastResult[1].result = Saved
  /\ counters[1] = [saved |-> 1, skipped |-> 0, errors |-> 0]
  /\ \E a \in post_analytics : a.tags = <<"Unanalyzed">> /\ a.sentiment_score = ScoreDefault

\* C16: if a required name is absent from the environment, the run reports
\* every missing name and ends with a non-zero status before any content
\* source, prompt registry, model or database call, and before any phase.
C16_MissingCredentialStopsRun ==
  \A r \in Runs :
    (pc[r] # "start" /\ ~(RequiredEnv \subseteq journal[r].env)) =>
      /\ journal[r].missing = RequiredEnv \ journal[r].env
      /\ pc[r] = "exited"
      /\ exitCode[r] # 0 /\ exitCode[r] # -1
      /\ journal[r].calls = {}
      /\ journal[r].phases = <<>>
      /\ totalProcessed[r] = 0
      /\ counters[r] = [saved |-> 0, skipped |-> 0, errors |-> 0]

\* A run started without the two content-source credentials has ended.
C16_Witness ==
  /\ journal[1].env = RequiredEnv \ {"REDDIT_CLIENT_ID", "REDDIT_CLIENT_SECRET"}
  /\ journal[1].missing = {"REDDIT_CLIENT_ID", "REDDIT_CLIENT_SECRET"}
  /\ exitCode[1] = 1

PhaseOrder == <<"FETCH", "ANALYZE", "PERSIST", "REPORT">>

CommunityIndex(subreddit) ==
  CHOOSE i \in 1..Len(Communities) : Communities[i] = subreddit

\* C18: communities are fetched in configured order, and the items handed to
\* analysis and then to persistence are the concatenation of the listings in
\* that order, each listing in the order the source gave it.
C18_OrderIsPreserved ==
  \A r \in Runs :
    /\ \A i \in 1..Len(fetchLog[r]) : fetchLog[r][i].subreddit = Communities[i]
    /\ pc[r] = "fetch" => PostIds(allPosts[r]) = Listed(fetchLog[r])
    /\ \A i, j \in 1..Len(allPosts[r]) :
         i < j => CommunityIndex(allPosts[r][i].source_subreddit)
                    <= CommunityIndex(allPosts[r][j].source_subreddit)
    /\ pc[r] \in {"analyze", "persist", "report"} =>
         PostIds(allPosts[r]) = journal[r].fetched
    /\ Len(analyzeCalls[r]) <= Len(allPosts[r])
    /\ \A i \in Calls(r) : analyzeCalls[r][i].id = allPosts[r][i].post.id
    /\ Len(analyzedPosts[r]) = Len(analyzeCalls[r])
    /\ \A i \in Analyzed(r) :
         /\ analyzedPosts[r][i].postData.reddit_id = allPosts[r][i].post.id
         /\ analyzedPosts[r][i].postData.subreddit = allPosts[r][i].source_subreddit
    /\ Len(saveCalls[r]) <= Len(analyzedPosts[r])
    /\ \A i \in 1..Len(saveCalls[r]) : saveCalls[r][i] = allPosts[r][i].post.id

\* Two items of the first community, listed in the order t3_c, t3_a, and one
\* of the second were saved in that order.
C18_Witness ==
  /\ pc[1] = "report"
  /\ journal[1].fetched = <<"t3_c", "t3_a", "t3_b">>
  /\ saveCalls[1] = <<"t3_c", "t3_a", "t3_b">>
  /\ Cardinality(posts) = 3

\* The places of a listing whose prompt has a truthy is_active flag.
ActiveAt(items) == {i \in 1..Len(items) : Truthy(items[i].is_active)}

\* The place of the most recently updated active prompt of a listing, the
\* first listed among those updated at the same time.
MostRecentActive(items) ==
  CHOOSE i \in ActiveAt(items) :
    \A j \in ActiveAt(items) :
      \/ UpdateTime(items[j]) < UpdateTime(items[i])
      \/ UpdateTime(items[j]) = UpdateTime(items[i]) /\ i <= j

\* The prompts getPrompts reads from the registry: the first ten of the
\* first listing call that succeeds.
ReadFromListing(env) ==
  LET listing == IF env.list1.ok THEN env.list1.items
                 ELSE IF env.list2.ok THEN env.list2.items ELSE <<>>
  IN SubSeq(listing, 1, Min(Len(listing), ListLimit))

\* The provenance of the i-th result of run r.
ProvenanceOf(r, i) ==
  <<analyzedPosts[r][i].analyticsData.prompt_id.v,
    analyzedPosts[r][i].analyticsData.prompt_version.v>>

\* C19 as stated: the listing is consulted only after a failed hub pull, it
\* yields the most recently updated active template of the whole listing, and
\* the bundled fallback is used when the listing call fails or lists no
\* active template.
C19_MostRecentActiveOfListing ==
  \A r \in Runs : \A i \in Calls(r) :
    LET c == analyzeCalls[r][i]
        env == c.env
    IN /\ "list" \in Range(c.consulted) => ~env.hub.ok
       /\ (~env.hub.ok /\ env.list1.ok /\ ActiveAt(env.list1.items) # {}) =>
            /\ c.template = "registry"
            /\ ResolveTemplate(env).activePrompt.id =
                 env.list1.items[MostRecentActive(env.list1.items)].id
       /\ (~env.hub.ok /\ (~env.list1.ok \/ ActiveAt(env.list1.items) = {})) =>
            c.template = "fallback"
       /\ (c.template = "fallback" /\ ~AnalysisThrows(env)) =>
            ProvenanceOf(r, i)[2] = "fallback"

\* C19: the hub pull comes first and the registry listing is consulted
\* exactly when the pull failed, a second time when the first listing call
\* failed; of the first ten prompts the first successful listing call yields,
\* the most recently updated active one is the template, and the bundled
\* fallback is used when there is none among them or both listing calls
\* failed; a result scored with the fallback has provenance "fallback".
C19_ResolutionOrder ==
  \A r \in Runs : \A i \in Calls(r) :
    LET c == analyzeCalls[r][i]
        env == c.env
        read == ReadFromListing(env)
    IN /\ c.consulted[1] = "hub"
       /\ c.consulted = IF env.hub.ok THEN <<"hub">>
                        ELSE IF env.list1.ok THEN <<"hub", "list">>
                        ELSE <<"hub", "list", "list">>
       /\ (~env.hub.ok /\ ActiveAt(read) # {}) =>
            /\ c.template = "registry"
            /\ ResolveTemplate(env).activePrompt.id = read[MostRecentActive(read)].id
            /\ ~AnalysisThrows(env) =>
                 ProvenanceOf(r, i)[1] = read[MostRecentActive(read)].id.v
       /\ (~env.hub.ok /\ ActiveAt(read) = {}) =>
            /\ c.template = "fallback"
            /\ ResolveTemplate(env).activePrompt = JNull
       /\ (c.template = "fallback" /\ ~AnalysisThrows(env)) =>
            ProvenanceOf(r, i) = <<"fallback", "fallback">>

\* The hub pull failed, the listing held an older and a newer active prompt
\* and a still newer inactive one, and the result carries the newer active
\* prompt's id.
C19_Witness ==
  /\ Len(analyzeCalls[1]) = 1
  /\ analyzeCalls[1][1].consulted = <<"hub", "list">>
  /\ analyzeCalls[1][1].template = "registry"
  /\ Len(analyzeCalls[1][1].env.list1.items) = 3
  /\ ProvenanceOf(1, 1)[1] = "p-new"

\* The placeholder names a hub template declares.
DeclaredVars(hub) ==
  IF Truthy(hub.prompt.inputVariables) THEN hub.prompt.inputVariables.v ELSE <<>>

\* The hub pull of a call succeeded with a template that declares two or
\* more placeholder names, none of them content, post or text.
UnrelatedHubTemplate(env) ==
  /\ env.hub.ok
  /\ Len(DeclaredVars(env.hub)) >= 2
  /\ Range(DeclaredVars(env.hub)) \cap {"content", "post", "text"} = {}

\* C20: for a hub template that declares two or more placeholder names, none
\* of them content, post or text, the bundled fallback template is used, the
\* call returns, and the registry listing is not consulted; the resolver
\* drops the hub prompt, so the result never carries the hub template's
\* provenance: it carries the fallback's when the scoring completes, and the
\* degraded result's when an exception reaches analyzePost's handler.
C20_UnrelatedHubTemplateFallsThrough ==
  \A r \in Runs : \A i \in Calls(r) :
    LET c == analyzeCalls[r][i]
    IN UnrelatedHubTemplate(c.env) =>
         /\ c.consulted = <<"hub">>
         /\ c.template = "fallback"
         /\ c.kind = "return"
         /\ ResolveTemplate(c.env).activePrompt = JNull
         /\ ProvenanceOf(r, i) =
              IF AnalysisThrows(c.env) THEN <<"error", "error">>
              ELSE <<"fallback", "fallback">>

\* A hub template declaring foo and bar was pulled, the scoring completed on
\* the fallback template, and the result carries the fallback's provenance.
C20_Witness ==
  /\ Len(analyzeCalls[1]) = 1
  /\ analyzeCalls[1][1].env.hub.ok
  /\ DeclaredVars(analyzeCalls[1][1].env.hub) = <<"foo", "bar">>
  /\ analyzeCalls[1][1].env.first = Value(GoodObject)
  /\ analyzeCalls[1][1].template = "fallback"
  /\ ProvenanceOf(1, 1) = <<"fallback", "fallback">>

\* The i-th call of analyzePost in run r ended without an exception reaching
\* its handler, so its result is not the degraded one.
NotDegraded(r, i) == ~AnalysisThrows(analyzeCalls[r][i].env)

\* C21: within one run every analysis result that did not degrade carries the
\* same template provenance (prompt id and version), whatever the hub and
\* the registry answer from one item to the next.
C21_OneTemplatePerRun ==
  \A r \in Runs : \A i, j \in Analyzed(r) :
    (NotDegraded(r, i) /\ NotDegraded(r, j)) =>
      ProvenanceOf(r, i) = ProvenanceOf(r, j)

\* The version tag of the prompt that stayed active for the i-th call of run r.
RenderedVersion(r, i) ==
  ResolveTemplate(analyzeCalls[r][i].env).activePrompt.metadata.version

\* C22: a result that did not degrade records the id and the version of the
\* template that was rendered: a registry template with version tag v gives
\* prompt_version v, the hub template gives "latest", the bundled fallback
\* gives "fallback".
C22_ProvenanceIsRenderedTemplate ==
  \A r \in Runs : \A i \in Analyzed(r) :
    NotDegraded(r, i) =>
      LET c == analyzeCalls[r][i]
      IN /\ c.template = "registry" =>
              /\ ProvenanceOf(r, i)[1] = ResolveTemplate(c.env).activePrompt.id.v
              /\ RenderedVersion(r, i).t = "string" =>
                   ProvenanceOf(r, i)[2] = RenderedVersion(r, i).v
         /\ c.template = "hub" =>
              ProvenanceOf(r, i) = <<"startup-analysis-2", "latest">>
         /\ c.template = "fallback" =>
              ProvenanceOf(r, i) = <<"fallback", "fallback">>

\* C23: every analysis result and every stored analytics row has at most 5
\* tags, whatever the length of the tag array in the model output.
C23_AtMostFiveTags ==
  /\ \A r \in Runs : \A i \in Analyzed(r) :
       Len(analyzedPosts[r][i].analyticsData.tags.v) <= 5
  /\ \A a \in post_analytics : Len(a.tags) <= 5

\* Run r has ended.
Ended(r) == exitCode[r] # -1

\* C24: every run ends, with exit status 0 or with exit status 1, whatever
\* its external calls answer; once it has ended its status and its journal
\* never change again and it takes no further step: the run is not retried
\* or resumed.
C24_RunEndsOnce ==
  /\ [](\A r \in Runs :
          /\ exitCode[r] \in {-1, 0, 1}
          /\ Ended(r) <=> pc[r] = "exited")
  /\ [][\A r \in Runs :
          Ended(r) => /\ exitCode'[r] = exitCode[r]
                      /\ pc'[r] = pc[r]
                      /\ journal'[r] = journal[r]
                      /\ counters'[r] = counters[r]]_vars
  /\ <>Ended(1)
  /\ \A r \in Runs : (pc[r] # "start") ~> Ended(r)

\* A run went through all four phases and ended with status 1, having
\* counted an error for its only item.
C24_Witness ==
  /\ exitCode[1] = 1 /\ Completed(1)
  /\ counters[1].errors = 1 /\ totalProcessed[1] = 1

\* C25 as stated: a hub template is set aside exactly when it declares more
\* than one placeholder name and none of content, post, text; with no
\* placeholder or with exactly one, of any name, it is the rendered template.
C25_InvalidOnlyIfSeveralUnrelated ==
  \A r \in Runs : \A i \in Calls(r) :
    LET c == analyzeCalls[r][i]
    IN c.env.hub.ok =>
         (c.template = "fallback" <=> UnrelatedHubTemplate(c.env))

\* The hub template of a call declares one of content, post, text, or
\* exactly one placeholder whose name is shorter than 50 characters.
PlausibleHubTemplate(env) ==
  LET declared == DeclaredVars(env.hub)
  IN \/ Range(declared) \cap {"content", "post", "text"} # {}
     \/ Len(declared) = 1 /\ Len(declared[1]) < 50

\* C25: a hub template is the rendered template exactly when it declares one
\* of content, post, text, or exactly one placeholder with a name shorter
\* than 50 characters; otherwise (several unrelated names, no placeholder at
\* all, or a single name of 50 characters or more) the bundled fallback is
\* rendered and the hub prompt is dropped.  A result scored with the hub
\* template carries its provenance.
C25_HubTemplateAcceptance ==
  \A r \in Runs : \A i \in Calls(r) :
    LET c == analyzeCalls[r][i]
    IN c.env.hub.ok =>
         /\ c.template = IF PlausibleHubTemplate(c.env) THEN "hub" ELSE "fallback"
         /\ c.consulted = <<"hub">>
         /\ ~PlausibleHubTemplate(c.env) =>
              ResolveTemplate(c.env).activePrompt = JNull
         /\ (PlausibleHubTemplate(c.env) /\ NotDegraded(r, i)) =>
              ProvenanceOf(r, i) = <<"startup-analysis-2", "latest">>
         /\ (~PlausibleHubTemplate(c.env) /\ NotDegraded(r, i)) =>
              ProvenanceOf(r, i) = <<"fallback", "fallback">>

\* A hub template declaring the single placeholder question was rendered and
\* the result carries the hub template's provenance.
C25_Witness ==
  /\ Len(analyzeCalls[1]) = 1
  /\ analyzeCalls[1][1].env.hub.ok
  /\ DeclaredVars(analyzeCalls[1][1].env.hub) = <<"question">>
  /\ analyzeCalls[1][1].template = "hub"
  /\ NotDegraded(1, 1)
  /\ ProvenanceOf(1, 1) = <<"startup-analysis-2", "latest">>

\* The first JSON object in a raw response that holds one.
RECURSIVE FirstObject(_)
FirstObject(content) ==
  IF Head(content).t = "object" THEN Head(content) ELSE FirstObject(Tail(content))

\* The strict-JSON parse of the i-th call of run r failed, the template was
\* built, and the re-invocation returned a text that holds a JSON object.
RawHoldsObject(r, i) ==
  LET env == analyzeCalls[r][i].env
  IN /\ env.first = ThrownBy("parser")
     /\ ~ResolveTemplate(env).threw
     /\ env.raw.k = "text"
     /\ \E k \in 1..Len(env.raw.content) : env.raw.content[k].t = "object"

\* C26: when the strict-JSON parse fails and the raw text of the
\* re-invocation holds at least one JSON object, with whatever text, braces
\* or further objects around it, the result is built from the first object
\* and is not the degraded one.
C26_FirstObjectOfRawText ==
  \A r \in Runs : \A i \in Analyzed(r) :
    RawHoldsObject(r, i) =>
      LET c == analyzeCalls[r][i]
          post == allPosts[r][i].post
      IN /\ analyzedPosts[r][i].analyticsData.tags # JArr(<<"Unanalyzed">>)
         /\ analyzedPosts[r][i].analyticsData =
              analyticsData(post,
                            validatedAnalysis(post, FirstObject(c.env.raw.content),
                                              ResolveTemplate(c.env).activePrompt))

\* C27: every turn of the fetch loop, whether its listing call succeeded or
\* failed, ends with the fixed delay before the next community is fetched,
\* and every analysis call is followed by the fixed delay before the next
\* item is analyzed.
C27_DelayAfterEveryRequest ==
  \A r \in Runs :
    /\ \A i \in 1..Len(fetchLog[r]) : fetchLog[r][i].waited = RequestDelay
    /\ \A i \in Calls(r) : analyzeCalls[r][i].waited = RequestDelay

\* The number of items the counters of run r account for.
CountedItems(c) == c.saved + c.skipped + c.errors

\* C28: the counters are conserved.  While saveToDatabase runs they account
\* for exactly the items whose save has returned, each return adding one to
\* exactly one counter; at REPORT, and in the summary a completed run leaves,
\* saved + skipped + errors equals the number of items handed to PERSIST,
\* which is the number of fetched items, totalProcessed.
C28_CountersConserved ==
  \A r \in Runs :
    /\ pc[r] = "persist" => CountedItems(counters[r]) = nextPost[r] - 1
    /\ Returned(r) =>
         LET before == lastResult[r].before
         IN /\ CountedItems(counters[r]) = CountedItems(before) + 1
            /\ counters[r].saved >= before.saved
            /\ counters[r].skipped >= before.skipped
            /\ counters[r].errors >= before.errors
    /\ pc[r] = "report" =>
         /\ CountedItems(counters[r]) = Len(analyzedPosts[r])
         /\ Len(analyzedPosts[r]) = totalProcessed[r]
         /\ totalProcessed[r] = Len(allPosts[r])
         /\ saveCalls[r] = journal[r].fetched
    /\ (pc[r] = "exited" /\ Completed(r)) =>
         /\ CountedItems(counters[r]) = totalProcessed[r]
         /\ totalProcessed[r] = Len(journal[r].fetched)

\* A run is at REPORT with three items handed to PERSIST, one of them saved,
\* one skipped and one counted as an error.
C28_Witness ==
  /\ pc[1] = "report"
  /\ totalProcessed[1] = 3
  /\ counters[1] = [saved |-> 1, skipped |-> 1, errors |-> 1]

\* The runs whose last save found the item absent at the existence check and
\* has returned.
Racers == {r \in Runs : Returned(r) /\ ~PresentAtCall(r)}

\* The insert into posts of run r's last save was rejected by the UNIQUE
\* constraint on reddit_id.
RejectedAsDuplicate(r) ==
  /\ lastResult[r].step = "insertPost"
  /\ lastResult[r].result = Failed("Failed to save post: " \o ConstraintError)

\* C29: when runs execute at the same time and save the same item, several
\* may pass the existence check before any inserts, yet posts never holds
\* two rows with one reddit_id.  Of the runs that passed the check at most
\* one returns saved; a run whose insert the UNIQUE constraint rejected
\* finds the row of another run in posts, returns an error, is counted under
\* errors and not under skipped, and writes no analytics row, so the post has
\* at most one; and when every run passed the check and no insert into posts
\* failed in transport, exactly one run returns saved.
C29_ConcurrentSavesKeepKeyUnique ==
  /\ \A p, q \in posts : p.reddit_id = q.reddit_id => p = q
  /\ \A a, b \in post_analytics : a.post_id = b.post_id => a = b
  /\ Cardinality({r \in Racers : lastResult[r].result.saved}) <= 1
  /\ \A r \in Racers :
       /\ lastResult[r].step = "insertPost" =>
            /\ ~lastResult[r].result.saved /\ ~lastResult[r].result.skipped
            /\ lastResult[r].result.error # ""
            /\ counters[r] = [lastResult[r].before EXCEPT !.errors = @ + 1]
       /\ RejectedAsDuplicate(r) =>
            /\ RowsOf(lastResult[r].reddit_id) # {}
            /\ savedPost[r] = NoRow
  /\ (Racers = Runs /\ \A r \in Runs : lastResult[r].step = "insertPost" =>
                                         RejectedAsDuplicate(r)) =>
       Cardinality({r \in Racers : lastResult[r].result.saved}) = 1

\* Both runs passed the existence check on the empty store; the first run's
\* insert succeeded and it returned saved, the second run's insert was
\* rejected as a duplicate and it returned an error; the post has one row
\* and one analytics row.
C29_Witness ==
  /\ Racers = Runs
  /\ saveStart[2].posts = {}
  /\ lastResult[1].result = Saved
  /\ RejectedAsDuplicate(2)
  /\ counters[2] = [saved |-> 0, skipped |-> 0, errors |-> 1]
  /\ Cardinality(posts) = 1
  /\ Cardinality(post_analytics) = 1

\* The last save of run r was for an item that was in posts, without an
\* analytics row, when the call began, and the call has returned.
OrphanSavedAgain(r) ==
  /\ Returned(r)
  /\ \E row \in saveStart[r].posts :
       /\ row.reddit_id = lastResult[r].reddit_id
       /\ \A a \in saveStart[r].post_analytics : a.post_id # row.id

\* C30: a post that was saved while its analytics insert failed never gets
\* an analytics row in a later run: every later save of the item returns
\* skipped at the existence check, the post stays without analytics, and no
\* row of either table is changed or removed.
C30_OrphanPostIsSkippedForever ==
  \A r \in Runs :
    OrphanSavedAgain(r) =>
      /\ lastResult[r].step = "lookup"
      /\ lastResult[r].result = Skipped
      /\ StoreAsFound(r)
      /\ \A row \in RowsOf(lastResult[r].reddit_id) : AnalyticsOf(row) = {}

====
